---- MODULE Spec2Model ----
(***************************************************************************)
(* A model of efemel's chunked pipeline engine (src/efemel/pipeline.py):   *)
(* PipelineItem / PipelineContext, the generator chain built by the        *)
(* intermediate operations, the terminal operations, and the thread pool   *)
(* of Pipeline.concurrent.                                                 *)
(*                                                                         *)
(* A Pipeline owns a generator of chunks.  Every intermediate operation    *)
(* creates a new generator that pulls from the generator of the pipeline   *)
(* it was called on.  The generators are kept in the table gens; Pull      *)
(* performs one next() on a generator and returns the chunk (or the end    *)
(* of the stream) together with the state all generators are left in.      *)
(***************************************************************************)
EXTENDS Integers, Sequences, FiniteSets, TLC

\* ------------------------------------------------------------------ bounds
MaxLen == 3
MaxChunk == 2
MaxStages == 2

\* ------------------------------------------------------------------ values
\* A value held by an item: an integer, or a list of integers (for flatten).
IntV(n) == [isList |-> FALSE, n |-> n, xs |-> <<>>]
ListV(xs) == [isList |-> TRUE, n |-> 0, xs |-> xs]

\* error = None
NoErr == [k |-> 0, by |-> "none", arg |-> IntV(0)]
\* The exception raised by user function `by`, called by generator k with
\* argument v.
Err(k, by, v) == [k |-> k, by |-> by, arg |-> v]

\* PipelineItem(value, error, context); id names the item across the stages
\* that re-create it.
Item(id, v, e, c) == [id |-> id, value |-> v, error |-> e, context |-> c]

\* PipelineContext(has_errors=False, errors=[]); pv and seen are the two
\* user keys the modelled user functions write (0 / -1: key absent).
NewContext == [has_errors |-> FALSE, errors |-> <<>>, pv |-> 0, seen |-> -1]

Root == 1

\* ---------------------------------------------------------- user functions
\* What a call of a user function does: returns val, or raises.
\* arg is the argument the function was called with (an exception carries it).
Ok(a, v) == [raised |-> FALSE, val |-> v, arg |-> a]
Raised(a) == [raised |-> TRUE, val |-> IntV(0), arg |-> a]

\* map functions.  inc: lambda x: 3 // x and (x + 1) % 3 (raises on 0 and
\* on a list); lappend: modify_context, which returns (2 * x) % 3.
MapFn(fn, v) ==
  CASE fn = "inc" -> IF v.isList \/ v.n = 0 THEN Raised(v) ELSE Ok(v, IntV((v.n + 1) % 3))
    [] OTHER -> Ok(v, IntV((2 * v.n) % 3))

\* filter predicates:
\*   keep2  lambda x: 1 // (1 - x) and x != 0 (keeps 2, drops 0, raises on 1)
\*   keep0  lambda x: 1 // (2 - x) and x != 1 (keeps 0, drops 1, raises on 2)
\* and both raise on a list.
FilterFn(fn, v) ==
  IF v.isList THEN Raised(v)
  ELSE IF fn = "keep2"
  THEN IF v.n = 1 THEN Raised(v) ELSE Ok(v, IntV(IF v.n # 0 THEN 1 ELSE 0))
  ELSE IF v.n = 2 THEN Raised(v) ELSE Ok(v, IntV(IF v.n # 1 THEN 1 ELSE 0))

\* tap function: raises on 1 and on a list (setkey: on a list).
TapFn(fn, v) ==
  IF v.isList \/ (v.n = 1 /\ fn # "setkey") THEN Raised(v) ELSE Ok(v, v)

\* reduce function: lambda acc, x: (2 * acc + x) % 3 if x != 2 else 1 / 0
\* (it raises on 2 and on a list).
ReduceFn(fn, acc, v) ==
  IF v.isList \/ v.n = 2 THEN Raised(v) ELSE Ok(v, IntV((2 * acc.n + v.n) % 3))

\* on_error handler of catch: raises for an error of the filter predicate.
OnErrorFn(fn, e) ==
  IF e.by = "filter" THEN Raised(e.arg) ELSE Ok(e.arg, IntV(0))

\* -------------------------------------------------------------- generators
\* One generator of the chain.  kind names the generator function, up the
\* generator it pulls from, cx the context of the pipeline it was created on
\* (self.context), size that pipeline's chunk_size.  The other fields are the
\* generator's local variables.
Gen(kind, fn, up, cx, size) ==
  [kind |-> kind, fn |-> fn, up |-> up, cx |-> cx, size |-> size,
   chunks |-> <<>>,                       \* source: chunks not yet yielded
   buf |-> <<>>, pend |-> <<>>,           \* flatten: current_chunk, rest of chunk
   inner |-> <<>>, cur |-> Item(0, IntV(0), NoErr, 0),
   phase |-> "run", acc |-> IntV(0), errs |-> <<>>,
   iterable |-> <<>>,                     \* source of a chained pipeline: its iterable
   ups |-> <<>>, at |-> 1]                \* chain: pipelines, and the one it stands at

RECURSIVE ChunkLoopTrailing(_, _, _, _, _, _)
\* A chunker that yields what is left after the loop without testing it.
ChunkLoopTrailing(S, i, size, chunk, out, c) ==
  IF i > Len(S)
  THEN Append(out, chunk)
  ELSE LET ch2 == Append(chunk, Item(i, S[i], NoErr, c))
       IN IF Len(ch2) = size
          THEN ChunkLoopTrailing(S, i + 1, size, <<>>, Append(out, ch2), c)
          ELSE ChunkLoopTrailing(S, i + 1, size, ch2, out, c)

RECURSIVE ChunkLoop(_, _, _, _, _, _)
ChunkLoop(S, i, size, chunk, out, c) ==
  IF i > Len(S)
  THEN IF chunk # <<>> THEN Append(out, chunk) ELSE out
  ELSE LET ch2 == Append(chunk, Item(i, S[i], NoErr, c))
       IN IF Len(ch2) = size
          THEN ChunkLoop(S, i + 1, size, <<>>, Append(out, ch2), c)
          ELSE ChunkLoop(S, i + 1, size, ch2, out, c)

\* Pipeline._chunked_and_wrap: the chunks it yields, in order.
ChunkedAndWrap(S, size, c) == ChunkLoop(S, 1, size, <<>>, <<>>, c)

\* self.context["has_errors"] = True
SetHasErrors(st, c) == [st EXCEPT !.ctx[c].has_errors = TRUE]

\* The record of a call of generator g's user function on item it.
LogCall(st, g, it, r) ==
  [st EXCEPT !.calls = Append(@, [g |-> g, id |-> it.id, arg |-> r.arg,
                                   raised |-> r.raised])]

\* map_generator that calls the function on an errored item too.
MapItemRetry(g, it, st) ==
  LET G == st.gens[g]
      r == MapFn(G.fn, it.value)
      st1 == LogCall(st, g, it, r)
  IN IF r.raised
     THEN [out |-> <<Item(it.id, it.value, Err(g, "map", r.arg), it.context)>>,
           st |-> SetHasErrors(st1, G.cx)]
     ELSE [out |-> <<Item(it.id, r.val, NoErr, it.context)>>, st |-> st1]

\* map_generator that keeps a half-computed value in a failed item.
MapItemPartial(g, it, st) ==
  LET G == st.gens[g] IN
  IF it.error # NoErr
  THEN [out |-> <<Item(it.id, it.value, it.error, it.context)>>,
        st |-> SetHasErrors(st, G.cx)]
  ELSE LET r == MapFn(G.fn, it.value)
           st1 == LogCall(st, g, it, r)
       IN IF r.raised
          THEN [out |-> <<Item(it.id, ListV(<<>>), Err(g, "map", r.arg), it.context)>>,
                st |-> SetHasErrors(st1, G.cx)]
          ELSE [out |-> <<Item(it.id, r.val, NoErr, it.context)>>, st |-> st1]

\* map_generator, one item of the chunk.
MapItem(g, it, st) ==
  LET G == st.gens[g] IN
  IF it.error # NoErr
  THEN [out |-> <<Item(it.id, it.value, it.error, it.context)>>,
        st |-> SetHasErrors(st, G.cx)]
  ELSE LET r == MapFn(G.fn, it.value)
           st1 == LogCall(st, g, it, r)
       IN IF r.raised
          THEN [out |-> <<Item(it.id, it.value, Err(g, "map", r.arg), it.context)>>,
                st |-> SetHasErrors(st1, G.cx)]
          ELSE [out |-> <<Item(it.id, r.val, NoErr, it.context)>>, st |-> st1]

\* A filter_generator that flags the context when it drops an item.
FilterItemFlag(g, it, st) ==
  LET G == st.gens[g] IN
  IF it.error # NoErr
  THEN [out |-> <<it>>, st |-> SetHasErrors(st, G.cx)]
  ELSE LET r == FilterFn(G.fn, it.value)
           st1 == LogCall(st, g, it, r)
       IN IF r.raised
          THEN [out |-> <<Item(it.id, it.value, Err(g, "filter", r.arg), it.context)>>,
                st |-> SetHasErrors(st1, G.cx)]
          ELSE IF r.val.n # 0 THEN [out |-> <<it>>, st |-> st1]
          ELSE [out |-> <<>>, st |-> SetHasErrors(st1, G.cx)]

\* filter_generator, one item of the chunk.
FilterItem(g, it, st) ==
  LET G == st.gens[g] IN
  IF it.error # NoErr
  THEN [out |-> <<it>>, st |-> SetHasErrors(st, G.cx)]
  ELSE LET r == FilterFn(G.fn, it.value)
           st1 == LogCall(st, g, it, r)
       IN IF r.raised
          THEN [out |-> <<Item(it.id, it.value, Err(g, "filter", r.arg), it.context)>>,
                st |-> SetHasErrors(st1, G.cx)]
          ELSE [out |-> IF r.val.n # 0 THEN <<it>> ELSE <<>>, st |-> st1]

\* tap_generator, one item of the chunk: the function's exception is printed
\* and dropped, the item is passed on as it came.
\* tap_generator that turns the item into an errored item when the function
\* raises.
TapItemMark(g, it, st) ==
  IF it.error # NoErr
  THEN [out |-> <<it>>, st |-> st]
  ELSE LET G == st.gens[g]
           r == TapFn(G.fn, it.value)
           st1 == LogCall(st, g, it, r)
       IN IF r.raised
          THEN [out |-> <<Item(it.id, it.value, Err(g, "tap", r.arg), it.context)>>,
                st |-> SetHasErrors(st1, G.cx)]
          ELSE [out |-> <<it>>, st |-> st1]

\* tap_generator that sets has_errors when the function raises.
TapItemFlag(g, it, st) ==
  IF it.error # NoErr
  THEN [out |-> <<it>>, st |-> st]
  ELSE LET G == st.gens[g]
           r == TapFn(G.fn, it.value)
           st1 == LogCall(st, g, it, r)
       IN [out |-> <<it>>, st |-> IF r.raised THEN SetHasErrors(st1, G.cx) ELSE st1]

TapItem(g, it, st) ==
  IF it.error # NoErr
  THEN [out |-> <<it>>, st |-> st]
  ELSE LET G == st.gens[g]
           r == TapFn(G.fn, it.value)
           st1 == LogCall(st, g, it, r)
       IN \* setkey: lambda x, ctx: ctx.__setitem__("seen", x), on self.context
          IF G.fn = "setkey" /\ ~r.raised
          THEN [out |-> <<it>>, st |-> [st1 EXCEPT !.ctx[G.cx].seen = it.value.n]]
          ELSE [out |-> <<it>>, st |-> st1]

\* error_tapping_generator of catch, one item of the chunk.
\* error_tapping_generator that lets the exception of on_error replace the
\* error of the item.
CatchItemHandlerError(g, it, st) ==
  LET G == st.gens[g] IN
  IF it.error # NoErr
  THEN LET st1 == [SetHasErrors(st, G.cx) EXCEPT
                     !.ctx[G.cx].errors = Append(@, [value |-> it.value, error |-> it.error])]
           r == OnErrorFn(G.fn, it.error)
       IN [out |-> <<IF r.raised
                     THEN Item(it.id, it.value, Err(g, "errtap", r.arg), it.context)
                     ELSE it>>,
           st |-> [st1 EXCEPT !.handled = Append(@, [g |-> g, id |-> it.id,
                                   error |-> it.error, raised |-> r.raised])]]
  ELSE [out |-> <<it>>, st |-> st]

\* error_tapping_generator that takes the error off the item it reports.
CatchItemRecover(g, it, st) ==
  LET G == st.gens[g] IN
  IF it.error # NoErr
  THEN LET st1 == [SetHasErrors(st, G.cx) EXCEPT
                     !.ctx[G.cx].errors = Append(@, [value |-> it.value, error |-> it.error])]
       IN [out |-> <<Item(it.id, it.value, NoErr, it.context)>>,
           st |-> [st1 EXCEPT !.handled = Append(@, [g |-> g, id |-> it.id,
                                   error |-> it.error,
                                   raised |-> OnErrorFn(G.fn, it.error).raised])]]
  ELSE [out |-> <<it>>, st |-> st]

CatchItem(g, it, st) ==
  LET G == st.gens[g] IN
  IF it.error # NoErr
  THEN LET st1 == [SetHasErrors(st, G.cx) EXCEPT
                     !.ctx[G.cx].errors = Append(@, [value |-> it.value, error |-> it.error])]
       IN [out |-> <<it>>,
           st |-> [st1 EXCEPT !.handled = Append(@, [g |-> g, id |-> it.id,
                                   error |-> it.error,
                                   raised |-> OnErrorFn(G.fn, it.error).raised])]]
  ELSE [out |-> <<it>>, st |-> st]

ItemStep(g, it, st) ==
  CASE st.gens[g].kind = "map" -> MapItem(g, it, st)
    [] st.gens[g].kind = "filter" -> FilterItem(g, it, st)
    [] st.gens[g].kind = "tap" -> TapItem(g, it, st)
    [] OTHER -> CatchItem(g, it, st)

RECURSIVE ChunkStepStop(_, _, _, _, _)
\* A loop over the chunk that gives up at the first item that fails.
ChunkStepStop(g, chunk, i, out, st) ==
  IF i > Len(chunk)
  THEN [end |-> FALSE, chunk |-> out, st |-> st]
  ELSE LET r == ItemStep(g, chunk[i], st)
       IN IF Len(r.st.calls) > Len(st.calls) /\ r.st.calls[Len(r.st.calls)].raised
          THEN [end |-> FALSE, chunk |-> out \o r.out, st |-> r.st]
          ELSE ChunkStepStop(g, chunk, i + 1, out \o r.out, r.st)

RECURSIVE ChunkStepFront(_, _, _, _, _)
\* A loop over the chunk that puts each new item at the front of the new chunk.
ChunkStepFront(g, chunk, i, out, st) ==
  IF i > Len(chunk)
  THEN [end |-> FALSE, chunk |-> out, st |-> st]
  ELSE LET r == ItemStep(g, chunk[i], st)
       IN ChunkStepFront(g, chunk, i + 1, r.out \o out, r.st)

\* The loop over the items of one chunk: the new chunk and the state after it.
RECURSIVE ChunkStep(_, _, _, _, _)
ChunkStep(g, chunk, i, out, st) ==
  IF i > Len(chunk)
  THEN [end |-> FALSE, chunk |-> out, st |-> st]
  ELSE LET r == ItemStep(g, chunk[i], st)
       IN ChunkStep(g, chunk, i + 1, out \o r.out, r.st)

End(st) == [end |-> TRUE, chunk |-> <<>>, st |-> st]

RECURSIVE Pull(_, _)
\* A size test that lets the chunk grow one item beyond chunk_size.
ChunkFullLate(buf, n) == Len(buf) = n + 1

\* flatten_generator: len(current_chunk) == self.chunk_size
ChunkFull(buf, n) == Len(buf) = n

RECURSIVE FlattenLoop(_, _)
RECURSIVE ReduceLoop(_, _)

\* flatten_generator, from where it stands to its next yield (or its end).
\* pend is the rest of the chunk of the outer loop, inner the rest of the
\* list of the inner loop (cur: the item it belongs to), buf current_chunk.
FlattenLoop(g, st) ==
  LET G == st.gens[g] IN
  IF G.inner # <<>>
  THEN \* for item in value: append, yield when the chunk is full
       LET it == Item(st.nid, IntV(Head(G.inner)), NoErr, G.cur.context)
           buf2 == Append(G.buf, it)
           st1 == [st EXCEPT !.nid = @ + 1, !.gens[g].inner = Tail(@)]
       IN IF ChunkFull(buf2, G.size)
          THEN [end |-> FALSE, chunk |-> buf2, st |-> [st1 EXCEPT !.gens[g].buf = <<>>]]
          ELSE FlattenLoop(g, [st1 EXCEPT !.gens[g].buf = buf2])
  ELSE IF G.phase = "check"
  THEN \* the size test that follows every item of the outer loop
       LET st1 == [st EXCEPT !.gens[g].phase = "run"]
       IN IF ChunkFull(G.buf, G.size)
          THEN [end |-> FALSE, chunk |-> G.buf, st |-> [st1 EXCEPT !.gens[g].buf = <<>>]]
          ELSE FlattenLoop(g, st1)
  ELSE IF G.pend # <<>>
  THEN LET it == Head(G.pend)
           st1 == [st EXCEPT !.gens[g].pend = Tail(@), !.gens[g].phase = "check"]
       IN IF it.error # NoErr
          THEN FlattenLoop(g, [SetHasErrors(st1, G.cx) EXCEPT
                 !.gens[g].buf = Append(@, Item(it.id, it.value, it.error, it.context))])
          ELSE IF it.value.isList
          THEN FlattenLoop(g, [st1 EXCEPT !.gens[g].inner = it.value.xs,
                                          !.gens[g].cur = it])
          ELSE FlattenLoop(g, [st1 EXCEPT
                 !.gens[g].buf = Append(@, Item(it.id, it.value, NoErr, it.context))])
  ELSE IF G.phase = "done"
  THEN End(st)
  ELSE LET r == Pull(G.up, st)
       IN IF r.end
          THEN LET st1 == [r.st EXCEPT !.gens[g].phase = "done", !.gens[g].buf = <<>>]
               IN IF G.buf # <<>>
                  THEN [end |-> FALSE, chunk |-> G.buf, st |-> st1]
                  ELSE End(st1)
          ELSE FlattenLoop(g, [r.st EXCEPT !.gens[g].pend = r.chunk])

RECURSIVE ReduceChunkDrop(_, _, _, _)
\* A reduce loop that forgets the items that arrive with an error.
ReduceChunkDrop(g, chunk, i, st) ==
  LET G == st.gens[g] IN
  IF i > Len(chunk) THEN st
  ELSE LET it == chunk[i] IN
       IF it.error # NoErr
       THEN ReduceChunkDrop(g, chunk, i + 1, SetHasErrors(st, G.cx))
       ELSE LET r == ReduceFn(G.fn, G.acc, it.value)
                st1 == LogCall(st, g, it, r)
            IN IF r.raised
               THEN ReduceChunkDrop(g, chunk, i + 1,
                      [SetHasErrors(st1, G.cx) EXCEPT
                         !.gens[g].errs = Append(@, Item(it.id, it.value,
                                                  Err(g, "reduce", r.arg), it.context))])
               ELSE ReduceChunkDrop(g, chunk, i + 1, [st1 EXCEPT !.gens[g].acc = r.val])

RECURSIVE ReduceChunkReset(_, _, _, _)
\* A reduce loop that starts again from 0 when the function raises.
ReduceChunkReset(g, chunk, i, st) ==
  LET G == st.gens[g] IN
  IF i > Len(chunk) THEN st
  ELSE LET it == chunk[i] IN
       IF it.error # NoErr
       THEN ReduceChunkReset(g, chunk, i + 1,
              [SetHasErrors(st, G.cx) EXCEPT
                 !.gens[g].errs = Append(@, Item(it.id, it.value, it.error, it.context))])
       ELSE LET r == ReduceFn(G.fn, G.acc, it.value)
                st1 == LogCall(st, g, it, r)
            IN IF r.raised
               THEN ReduceChunkReset(g, chunk, i + 1,
                      [SetHasErrors(st1, G.cx) EXCEPT
                         !.gens[g].acc = IntV(0),
                         !.gens[g].errs = Append(@, Item(it.id, it.value,
                                                  Err(g, "reduce", r.arg), it.context))])
               ELSE ReduceChunkReset(g, chunk, i + 1, [st1 EXCEPT !.gens[g].acc = r.val])

RECURSIVE ReduceChunk(_, _, _, _)
\* reduce_generator, the items of one chunk.
ReduceChunk(g, chunk, i, st) ==
  LET G == st.gens[g] IN
  IF i > Len(chunk) THEN st
  ELSE LET it == chunk[i] IN
       IF it.error # NoErr
       THEN ReduceChunk(g, chunk, i + 1,
              [SetHasErrors(st, G.cx) EXCEPT
                 !.gens[g].errs = Append(@, Item(it.id, it.value, it.error, it.context))])
       ELSE LET r == ReduceFn(G.fn, G.acc, it.value)
                st1 == LogCall(st, g, it, r)
            IN IF r.raised
               THEN ReduceChunk(g, chunk, i + 1,
                      [SetHasErrors(st1, G.cx) EXCEPT
                         !.gens[g].errs = Append(@, Item(it.id, it.value,
                                                  Err(g, "reduce", r.arg), it.context))])
               ELSE ReduceChunk(g, chunk, i + 1, [st1 EXCEPT !.gens[g].acc = r.val])

\* reduce_generator, from where it stands to its next yield (or its end).
ReduceLoop(g, st) ==
  LET G == st.gens[g] IN
  IF G.phase = "done" THEN End(st)
  ELSE IF G.phase = "result"
  THEN [end |-> FALSE, chunk |-> <<Item(st.nid, G.acc, NoErr, G.cx)>>,
        st |-> [st EXCEPT !.nid = @ + 1, !.gens[g].phase = "done"]]
  ELSE LET r == Pull(G.up, st)
       IN IF r.end
          THEN LET H == r.st.gens[g]
               IN IF H.errs # <<>>
                  THEN [end |-> FALSE, chunk |-> H.errs,
                        st |-> [r.st EXCEPT !.gens[g].phase = "result"]]
                  ELSE ReduceLoop(g, [r.st EXCEPT !.gens[g].phase = "result"])
          ELSE ReduceLoop(g, ReduceChunk(g, r.chunk, 1, r.st))

\* A chain_generator that passes over the pipeline after the one that ended.
ChainAdvanceSkip(at) == at + 2

\* chain_generator: for pipeline in pipelines (the next pipeline).
ChainAdvance(at) == at + 1

RECURSIVE ChainLoop(_, _)
\* chain_generator, from where it stands to its next yield (or its end):
\* yield from pipeline.generator, for each pipeline in turn.
ChainLoop(g, st) ==
  LET G == st.gens[g] IN
  IF G.at > Len(G.ups) THEN End(st)
  ELSE LET r == Pull(G.ups[G.at], st)
       IN IF r.end
          THEN ChainLoop(g, [r.st EXCEPT !.gens[g].at = ChainAdvance(@)])
          ELSE r

\* next() on generator g.
Pull(g, st) ==
  LET G == st.gens[g] IN
  CASE G.kind = "source" ->
         IF G.chunks = <<>> THEN End(st)
         ELSE [end |-> FALSE, chunk |-> Head(G.chunks),
               st |-> [st EXCEPT !.gens[g].chunks = Tail(@)]]
    [] G.kind = "chain" -> ChainLoop(g, st)
    [] G.kind = "flatten" -> FlattenLoop(g, st)
    [] G.kind = "reduce" -> ReduceLoop(g, st)
    [] OTHER -> LET r == Pull(G.up, st)
                IN IF r.end THEN r ELSE ChunkStep(g, r.chunk, 1, <<>>, r.st)


\* ------------------------------------------------------------------- state
VARIABLES
  source,     \* the iterable given to Pipeline(source, chunk_size)
  size,       \* chunk_size
  gens,       \* the generators; the last one is the current pipeline's
  ctx,        \* the PipelineContext objects (Root: the root pipeline's)
  heap,       \* the list objects user functions keep in a context
  calls,      \* every call of a user function, in the order made
  handled,    \* every call of a catch handler, in the order made
  nid,        \* the next fresh item id
  phase,      \* "build": operations may be chained; "done": a terminal ran
  term,       \* the terminal operation that ran
  outcome,    \* "none", "returned", "CompoundError" or "StopIteration"
  results,    \* the list a terminal returned (or had collected when it raised)
  errors,     \* CompoundError.errors
  consumed,   \* the chunks the terminal received, in order
  \* Pipeline.concurrent(pipeline_func, max_workers, ordered)
  cphase,     \* where the result generator stands ("off": no concurrent call)
  maxw,       \* max_workers
  ordered,    \* ordered
  gfun,       \* pipeline_func
  futs,       \* the futures, in submission order, with their task's state
  lock,       \* context_lock: 0, or the task that holds it
  merged_errors,       \* merged_errors
  isolated_contexts,   \* isolated_contexts
  pool,       \* the ThreadPoolExecutor: "none", "running", "shutting", "closed"
  created,    \* how many executors were created
  delivered,  \* the futures whose result was yielded, in the order yielded
  batch,      \* unordered: the set done, not yet yielded
  waitset     \* unordered: the set futures

seqVars == <<source, size, gens, ctx, heap, calls, handled, nid, phase, term,
             outcome, results, errors, consumed>>

concVars == <<cphase, maxw, ordered, gfun, futs, lock, merged_errors,
              isolated_contexts, pool, created, delivered, batch, waitset>>

\* ParallelTransformer (src/efemel/pipeline/transformers/parallel.py)
VARIABLES
  pt,         \* the ParallelTransformer instance: max_workers, ordered,
              \* chunk_size, transformer and context (self.context)
  contexts,   \* the PipelineContext objects: the keys "count" and "lock"
  locks,      \* the threading.Lock objects: 0, or the task that holds it
  runs        \* the calls of the instance: the state of each result iterator

parVars == <<pt, contexts, locks, runs>>

\* Transformer (src/efemel/pipeline/transformers/transformer.py), HooksManager
\* (src/efemel/hooks_manager.py) and process_py_file (src/efemel/process.py)
VARIABLES
  tr,         \* the Transformer objects, the references the calls returned,
              \* and the iterator of the last call
  hm,         \* the HooksManager: self.hooks, and the last call of call()
  imp         \* sys.path, sys.modules and the threads in process_py_file

otherVars == <<tr, hm, imp>>

vars == <<seqVars, concVars, parVars, otherVars>>

\* No iterator of a Transformer exists.
NoCall == [h |-> 0, data |-> <<>>, chunks |-> <<>>, j |-> 0, out |-> <<>>,
           log |-> <<>>, state |-> "none"]

\* No ParallelTransformer was created.
ParOff ==
  /\ pt = [max_workers |-> 0, ordered |-> TRUE, chunk_size |-> 0,
           transformer |-> <<>>, context |-> 0]
  /\ contexts = <<>>
  /\ locks = <<>>
  /\ runs = <<>>

\* No concurrent call was made.
ConcOff ==
  /\ cphase = "off"
  /\ maxw = 0
  /\ ordered = TRUE
  /\ gfun = "none"
  /\ futs = <<>>
  /\ lock = 0
  /\ merged_errors = <<>>
  /\ isolated_contexts = <<>>
  /\ pool = "none"
  /\ created = 0
  /\ delivered = <<>>
  /\ batch = {}
  /\ waitset = {}

\* The generators, contexts and logs as one value, as the operators above
\* thread them.
St == [gens |-> gens, ctx |-> ctx, heap |-> heap, calls |-> calls,
       handled |-> handled, nid |-> nid]

Top == Len(gens)

RECURSIVE SeqsUpTo(_, _)
\* The sequences over V of length at most n.
SeqsUpTo(V, n) ==
  IF n = 0 THEN {<<>>}
  ELSE LET S == SeqsUpTo(V, n - 1)
       IN S \cup {Append(s, v) : s \in {t \in S : Len(t) = n - 1}, v \in V}

\* The number of files the CLI hands to its worker threads.
MaxFiles == 2

\* No Pipeline was created.
NoPipeline ==
  /\ source = <<>>
  /\ size = 1
  /\ gens = <<>>
  /\ ctx = <<>>
  /\ heap = <<>>
  /\ calls = <<>>
  /\ handled = <<>>
  /\ nid = 1
  /\ phase = "build"
  /\ term = "none"
  /\ outcome = "none"
  /\ results = <<>>
  /\ errors = <<>>
  /\ consumed = <<>>
  /\ ConcOff

\* tr, hm and imp before the first step.  The one that `on` names is in
\* use, and then no Pipeline and no ParallelTransformer was created:
\*   tr   Transformer(chunk_size=n)
\*   hm   HooksManager(): self.hooks = {}.  hooks is self.hooks["test"] (no
\*        key: the empty list); each function in it is tagged with the call
\*        that registered it, hist is the list of the add, add_before and
\*        remove calls made
\*   imp  the interpreter before the CLI processes its files: sys.path
\*        holds the directory "site" and perhaps the directory "a",
\*        sys.modules may hold a module "m" (9; 0: no entry); th holds one
\*        thread per file, with the file's directory and stem and the locals
\*        of process_py_file
\* The others are unused.
Others(on) ==
  /\ IF on = "tr"
     THEN \E n \in 1..MaxChunk :
            tr = [objs |-> <<[chunk_size |-> n, transformer |-> <<>>]>>,
                  refs |-> <<1>>, made |-> << <<>> >>, call |-> NoCall]
     ELSE tr = [objs |-> <<>>, refs |-> <<>>, made |-> <<>>, call |-> NoCall]
  /\ IF on = "hm"
     THEN hm = [hooks |-> <<>>, hist |-> <<>>, log |-> <<>>, context |-> <<>>,
                called |-> FALSE]
     ELSE hm = <<>>
  /\ IF on = "imp"
     THEN \E p0 \in {<<"site">>, <<"a", "site">>},
             m0 \in [{"m", "n"} -> {0}] \cup {[m |-> 9, n |-> 0]},
             k \in 1..MaxFiles :
            \E files \in [1..k -> [dir : {"a", "b"}, name : {"m", "n"}]] :
              imp = [path |-> p0, modules |-> m0, path0 |-> p0, modules0 |-> m0,
                     th |-> [t \in 1..k |->
                              [dir |-> files[t].dir, name |-> files[t].name,
                               pc |-> "start", original_sys_path |-> <<>>,
                               original_module_in_sys |-> 0, raising |-> FALSE]]]
     ELSE imp = <<>>
  /\ on # "none" => NoPipeline /\ ParOff

\* Pipeline(source, chunk_size)
NewPipeline(vals, n) ==
  /\ source \in SeqsUpTo(vals, n)
  /\ size \in 1..MaxChunk
  /\ gens = <<[Gen("source", "none", 0, Root, size) EXCEPT
                 !.chunks = ChunkedAndWrap(source, size, Root)]>>
  /\ ctx = <<NewContext>>
  /\ heap = <<>>
  /\ calls = <<>>
  /\ handled = <<>>
  /\ nid = Len(source) + 1
  /\ phase = "build"
  /\ term = "none"
  /\ outcome = "none"
  /\ results = <<>>
  /\ errors = <<>>
  /\ consumed = <<>>
  /\ ConcOff
  /\ ParOff
  /\ Others("none")

\* Pipeline._from_chunks(<kind>_generator(), self.chunk_size, self.context)
Derive(gs, kind, fn) ==
  Append(gs, Gen(kind, fn, Len(gs), gs[Len(gs)].cx, gs[Len(gs)].size))

CanChain(n) == phase = "build" /\ cphase = "off" /\ Len(gens) - 1 + n <= MaxStages

Chained == UNCHANGED <<source, size, ctx, heap, calls, handled, nid, phase, term,
                       outcome, results, errors, consumed, concVars, parVars, otherVars>>

\* Pipeline.map(function)
Map ==
  /\ CanChain(1)
  /\ gens' = Derive(gens, "map", "inc")
  /\ Chained

\* Pipeline.filter(predicate)
Filter ==
  /\ CanChain(1)
  /\ gens' = Derive(gens, "filter", "keep0")
  /\ Chained

\* Pipeline.flatten()
Flatten ==
  /\ CanChain(1)
  /\ gens' = Derive(gens, "flatten", "none")
  /\ Chained

\* Pipeline.tap(function)
Tap ==
  /\ CanChain(1)
  /\ gens' = Derive(gens, "tap", "log")
  /\ Chained

\* Pipeline.reduce(function, initial), initial = 0
Reduce ==
  /\ CanChain(1)
  /\ gens' = Derive(gens, "reduce", "sum")
  /\ Chained

\* Pipeline.catch(pipeline_func, on_error): pipeline_func(self), then the
\* error tapping generator on its result.
Catch ==
  \E pf \in {"id", "map", "filter", "reduce"} :
    /\ CanChain(IF pf = "id" THEN 1 ELSE 2)
    /\ LET inner == CASE pf = "map" -> Derive(gens, "map", "inc")
                      [] pf = "filter" -> Derive(gens, "filter", "keep0")
                      [] pf = "reduce" -> Derive(gens, "reduce", "sum")
                      [] OTHER -> gens
       IN gens' = Append(inner, Gen("errtap", "handler", Len(inner),
                                    gens[Top].cx, gens[Top].size))
    /\ Chained

\* to_list that reports the first error only.
ToListItemFirst(it, a, cx) ==
  IF it.error # NoErr
  THEN [a EXCEPT !.errors = IF @ = <<>> THEN <<it.error>> ELSE @,
                 !.st = SetHasErrors(@, cx)]
  ELSE [a EXCEPT !.results = Append(@, it.value)]

\* to_list, one item of a chunk.  a: the results and errors so far.
ToListItem(it, a, cx) ==
  IF it.error # NoErr
  THEN [a EXCEPT !.errors = Append(@, it.error), !.st = SetHasErrors(@, cx)]
  ELSE [a EXCEPT !.results = Append(@, it.value)]

RECURSIVE ToListChunk(_, _, _, _)
ToListChunk(chunk, i, a, cx) ==
  IF i > Len(chunk) THEN a
  ELSE ToListChunk(chunk, i + 1, ToListItem(chunk[i], a, cx), cx)

RECURSIVE ToListLoop(_, _)
\* to_list: for chunk in self.generator
ToListLoop(g, a) ==
  LET r == Pull(g, a.st)
  IN IF r.end THEN [a EXCEPT !.st = r.st]
     ELSE ToListLoop(g, ToListChunk(r.chunk, 1,
                          [a EXCEPT !.st = r.st, !.consumed = Append(@, r.chunk)],
                          a.st.gens[g].cx))

RECURSIVE NoopChunk(_, _, _, _)
NoopChunk(chunk, i, a, cx) ==
  IF i > Len(chunk) THEN a
  ELSE NoopChunk(chunk, i + 1,
                 IF chunk[i].error # NoErr
                 THEN [a EXCEPT !.errors = Append(@, chunk[i].error)] ELSE a,
                 cx)

RECURSIVE NoopLoop(_, _)
\* noop: [error for chunk in self.generator for _, error, _ in chunk if error]
NoopLoop(g, a) ==
  LET r == Pull(g, a.st)
  IN IF r.end THEN [a EXCEPT !.st = r.st]
     ELSE NoopLoop(g, NoopChunk(r.chunk, 1,
                        [a EXCEPT !.st = r.st, !.consumed = Append(@, r.chunk)],
                        a.st.gens[g].cx))

Acc0 == [st |-> St, results |-> <<>>, errors |-> <<>>, consumed |-> <<>>]

\* What a terminal leaves behind.
Finish(a, name, how) ==
  /\ gens' = a.st.gens
  /\ ctx' = a.st.ctx
  /\ heap' = a.st.heap
  /\ calls' = a.st.calls
  /\ handled' = a.st.handled
  /\ nid' = a.st.nid
  /\ results' = a.results
  /\ errors' = a.errors
  /\ consumed' = a.consumed
  /\ outcome' = how
  /\ term' = name
  /\ phase' = "done"
  /\ UNCHANGED <<source, size, concVars, parVars, otherVars>>

\* Pipeline.to_list()
ToList ==
  /\ phase = "build" /\ cphase = "off"
  /\ LET a == ToListLoop(Top, Acc0)
     IN Finish(a, "to_list", IF a.errors # <<>> THEN "CompoundError" ELSE "returned")

\* Pipeline.noop()
Noop ==
  /\ phase = "build" /\ cphase = "off"
  /\ LET a == NoopLoop(Top, Acc0)
         b == IF a.errors # <<>>
              THEN [a EXCEPT !.st = SetHasErrors(@, gens[Top].cx)] ELSE a
     IN Finish(b, "noop", IF a.errors # <<>> THEN "CompoundError" ELSE "returned")

\* A first that looks for items before it looks for errors.
FirstOutcomeEmptyFirst(a) ==
  IF a.results = <<>> THEN "StopIteration"
  ELSE IF a.errors # <<>> THEN "CompoundError" ELSE "returned"

\* first: items = self.to_list() raises CompoundError; an empty items raises
\* StopIteration; else items[0] is returned.
FirstOutcome(a) ==
  IF a.errors # <<>> THEN "CompoundError"
  ELSE IF a.results = <<>> THEN "StopIteration" ELSE "returned"

\* Pipeline.first()
First ==
  /\ phase = "build" /\ cphase = "off"
  /\ LET a == ToListLoop(Top, Acc0)
     IN Finish(IF FirstOutcome(a) = "returned"
               THEN [a EXCEPT !.results = <<a.results[1]>>] ELSE a,
               "first", FirstOutcome(a))

SeqNext ==
  Map \/ Filter \/ Flatten \/ Tap \/ Reduce \/ Catch \/ ToList \/ Noop \/ First


\* ------------------------------------------------- Pipeline.concurrent
MaxWorkers == 2
ConcLen == 2

\* The pipeline functions handed to concurrent:
\*   map        lambda p: p.map(inc)
\*   mapfilter  lambda p: p.map(inc).filter(keep2)
\*   catchmap   lambda p: p.catch(lambda q: q.map(inc), handler)
\*   setkey     lambda p: p.tap(lambda x, ctx: ctx.__setitem__("seen", x))
\*   lappend    lambda p: p.map(modify_context), which appends the value to
\*              the list context["pv"], creating it when the key is absent
\*   boom       a function that raises when its chunk holds 0 and returns
\*              p.filter(keep2) otherwise
\* The pipelines of map and boom are consumed by a for loop, which may break,
\* or by to_list; the others by to_list.

\* A future of futs is the future of a submitted chunk and the state of
\* the task behind it.  pc, res, i: where apply_to_chunk stands, the items
\* it has produced, the item of the chunk it is at.  doneAt: the task was the
\* doneAt-th to complete (see DoneStamp); waitNo: the call of wait that
\* returned the future (0: not yet).

\* The isolated context of the task of future j.
Iso(j) == j + 1

\* pipeline_func(p), p the pipeline of the generators base.
PipelineFunc(gf, base) ==
  LET c == base[Len(base)].cx
      n == base[Len(base)].size
      mapped == Derive(base, "map", "inc")
  IN CASE gf = "map" -> mapped
       [] gf = "mapfilter" -> Derive(mapped, "filter", "keep2")
       [] gf = "catchmap" -> Append(mapped, Gen("errtap", "handler", Len(base) + 1, c, n))
       [] gf = "setkey" -> Derive(base, "tap", "setkey")
       [] gf = "lappend" -> Derive(base, "map", "lappend")
       [] OTHER -> Derive(base, "filter", "keep2")

RECURSIVE DrainLoop(_, _, _)
\* [item for processed_chunk in processed_pipeline.generator
\*       for item in processed_chunk]
DrainLoop(g, st, out) ==
  LET r == Pull(g, st)
  IN IF r.end THEN [res |-> out, st |-> r.st]
     ELSE DrainLoop(g, r.st, out \o r.chunk)

\* One key of an isolated context merged into the parent context: a list is
\* extended by a list, any other value replaces the parent's, an absent key
\* is added.  m: the contexts and the list objects.
RECURSIVE MergeAll(_, _, _)
MergeAll(m, ics, i) ==
  IF i > Len(ics) THEN m
  ELSE LET iso == m.ctx[ics[i]]
           m1 == IF iso.pv = 0 THEN m
                 ELSE IF m.ctx[Root].pv # 0
                 THEN [m EXCEPT !.heap[m.ctx[Root].pv] = @ \o m.heap[iso.pv]]
                 ELSE [m EXCEPT !.ctx[Root].pv = iso.pv]
       IN MergeAll(IF iso.seen = -1 THEN m1 ELSE [m1 EXCEPT !.ctx[Root].seen = iso.seen],
                   ics, i + 1)

\* The "final context merge" of concurrent: the collected errors and the
\* keys of the collected isolated contexts go to the parent context.
FinalMerge(m, me, ics) ==
  MergeAll([m EXCEPT !.ctx[Root].errors = @ \o me], ics, 1)

ConcSame == UNCHANGED <<source, size, maxw, ordered, gfun, parVars, otherVars>>

\* Pipeline.concurrent(pipeline_func, max_workers, ordered): the result
\* pipeline is built, nothing runs yet; the final merge runs here.
Concurrent ==
  \E m \in 1..MaxWorkers, o \in BOOLEAN,
     gf \in {"map", "mapfilter", "catchmap", "setkey", "lappend", "boom"} :
    /\ phase = "build" /\ cphase = "off"
    /\ Len(gens) = 1                 \* called on the pipeline of the source
    /\ maxw' = m /\ ordered' = o /\ gfun' = gf
    /\ lock' = 0
    /\ merged_errors' = <<>>
    /\ isolated_contexts' = <<>>
    /\ LET mm == FinalMerge([ctx |-> ctx, heap |-> heap], <<>>, <<>>)
       IN ctx' = mm.ctx /\ heap' = mm.heap
    /\ cphase' = "lazy"
    /\ UNCHANGED <<source, size, gens, calls, handled, nid, phase, term, outcome,
                   results, errors, consumed, futs, pool, created, delivered,
                   batch, waitset, parVars, otherVars>>

\* The consumer's first next(): process_in_pool creates the executor.
PoolStart ==
  \E t \in {"to_list", "iter"} :
    /\ cphase = "lazy"
    /\ t = "iter" => gfun \in {"map", "boom"}
    /\ term' = t
    /\ pool' = "running"
    /\ created' = created + 1
    /\ cphase' = "submitting"
    /\ UNCHANGED <<gens, ctx, heap, calls, handled, nid, phase, outcome, results,
                   errors, consumed, futs, lock, merged_errors, isolated_contexts,
                   delivered, batch, waitset>>
    /\ ConcSame

\* executor.submit(apply_to_chunk, chunk) for chunk in self.generator: one
\* chunk is pulled and submitted, or the upstream has ended and the
\* generator goes on to yield.
SubmitNext ==
  /\ cphase = "submitting"
  /\ LET r == Pull(Top, St)
     IN IF r.end
        THEN /\ cphase' = "yielding"
             /\ waitset' = IF ordered THEN {} ELSE 1..Len(futs)
             /\ UNCHANGED <<futs, ctx>>
        ELSE /\ futs' = Append(futs, [chunk |-> r.chunk, state |-> "pending",
                                      pc |-> "none", res |-> <<>>, exc |-> FALSE,
                                      i |-> 1, doneAt |-> 0, waitNo |-> 0])
             /\ ctx' = Append(ctx, NewContext)
             /\ UNCHANGED <<cphase, waitset>>
  /\ gens' = Pull(Top, St).st.gens
  /\ UNCHANGED <<heap, calls, handled, nid, phase, term, outcome, results, errors,
                 consumed, lock, merged_errors, isolated_contexts, pool, created,
                 delivered, batch>>
  /\ ConcSame

Running == {j \in 1..Len(futs) : futs[j].state = "running"}
Pending == {j \in 1..Len(futs) : futs[j].state = "pending"}

TaskSame == UNCHANGED <<gens, phase, term, outcome, results, errors, consumed,
                        cphase, pool, created, delivered, batch, waitset>>

\* An apply_to_chunk whose isolated context is the parent context itself.
TaskStartShared(j) ==
  /\ pool \in {"running", "shutting"}
  /\ j \in Pending /\ \A k \in Pending : j <= k
  /\ Cardinality(Running) < maxw
  /\ futs' = [futs EXCEPT ![j].state = "running",
                          ![j].pc = IF gfun # "lappend" THEN "run"
                                    ELSE IF futs[j].chunk = <<>> THEN "lock"
                                    ELSE "chk"]
  /\ ctx' = [ctx EXCEPT ![Root].has_errors = FALSE, ![Root].errors = <<>>,
                        ![Iso(j)] = [ctx[Root] EXCEPT !.has_errors = FALSE,
                                                      !.errors = <<>>]]
  /\ UNCHANGED <<heap, calls, handled, nid, lock, merged_errors, isolated_contexts>>
  /\ TaskSame /\ ConcSame

\* A worker thread takes the oldest work item: apply_to_chunk begins and
\* copies the parent context into its isolated context.
TaskStart(j) ==
  /\ pool \in {"running", "shutting"}
  /\ j \in Pending /\ \A k \in Pending : j <= k
  /\ Cardinality(Running) < maxw
  /\ futs' = [futs EXCEPT ![j].state = "running",
                          ![j].pc = IF gfun # "lappend" THEN "run"
                                    ELSE IF futs[j].chunk = <<>> THEN "lock"
                                    ELSE "chk"]
  /\ ctx' = [ctx EXCEPT ![Iso(j)] = [ctx[Root] EXCEPT !.has_errors = FALSE,
                                                      !.errors = <<>>]]
  /\ UNCHANGED <<heap, calls, handled, nid, lock, merged_errors, isolated_contexts>>
  /\ TaskSame /\ ConcSame

\* The place of the task that completes now among the completed tasks, which
\* the unordered generator's consumer can observe (0 with ordered=True, where
\* the results are taken in the order of submission).
DoneStamp ==
  IF ordered THEN 0
  ELSE 1 + Cardinality({k \in 1..Len(futs) : futs[k].state = "done"})

\* pipeline_func(chunk_pipeline) and the collection of its result.
TaskRun(j) ==
  /\ j \in Running /\ futs[j].pc = "run"
  /\ IF gfun = "boom" /\ \E i \in 1..Len(futs[j].chunk) : futs[j].chunk[i].value = IntV(0)
     THEN /\ futs' = [futs EXCEPT ![j].state = "done", ![j].pc = "none", ![j].exc = TRUE,
                                  ![j].doneAt = DoneStamp]
          /\ UNCHANGED <<ctx, heap, calls, handled, nid>>
     ELSE LET \* Pipeline._from_chunks([chunk], len(chunk), isolated_context), and
              \* pipeline_func applied to it
              sub == PipelineFunc(gfun,
                       <<[Gen("source", "none", 0, Iso(j), Len(futs[j].chunk))
                            EXCEPT !.chunks = <<futs[j].chunk>>]>>)
              d == DrainLoop(Len(sub), [St EXCEPT !.gens = sub], <<>>)
          IN /\ futs' = [futs EXCEPT ![j].pc = "lock", ![j].res = d.res]
             /\ ctx' = d.st.ctx
             /\ heap' = d.st.heap
             /\ calls' = d.st.calls
             /\ handled' = d.st.handled
             /\ nid' = d.st.nid
  /\ UNCHANGED <<lock, merged_errors, isolated_contexts>>
  /\ TaskSame /\ ConcSame

TaskUser == UNCHANGED <<calls, handled, nid, lock, merged_errors, isolated_contexts>>

\* modify_context: if "pv" not in context
TaskChk(j) ==
  /\ j \in Running /\ futs[j].pc = "chk"
  /\ LET it == futs[j].chunk[futs[j].i]
     IN futs' = [futs EXCEPT ![j].pc = IF ctx[it.context].pv = 0 THEN "set" ELSE "app"]
  /\ UNCHANGED <<ctx, heap>>
  /\ TaskUser /\ TaskSame /\ ConcSame

\* modify_context: context["pv"] = []
TaskSet(j) ==
  /\ j \in Running /\ futs[j].pc = "set"
  /\ LET it == futs[j].chunk[futs[j].i]
     IN /\ heap' = Append(heap, <<>>)
        /\ ctx' = [ctx EXCEPT ![it.context].pv = Len(heap) + 1]
  /\ futs' = [futs EXCEPT ![j].pc = "app"]
  /\ TaskUser /\ TaskSame /\ ConcSame

\* modify_context: context["pv"].append(value), and its return to
\* map_generator.  The list is the one the key holds now.
TaskApp(j) ==
  /\ j \in Running /\ futs[j].pc = "app"
  /\ LET it == futs[j].chunk[futs[j].i]
         r == MapFn("lappend", it.value)
     IN /\ heap' = [heap EXCEPT ![ctx[it.context].pv] = Append(@, it.value)]
        /\ futs' = [futs EXCEPT
                      ![j].res = Append(@, Item(it.id, r.val, NoErr, it.context)),
                      ![j].i = @ + 1,
                      ![j].pc = IF futs[j].i = Len(futs[j].chunk) THEN "lock" ELSE "chk"]
  /\ UNCHANGED ctx
  /\ TaskUser /\ TaskSame /\ ConcSame

\* with context_lock: the isolated context is collected and its errors are
\* noted.
TaskMerge(j) ==
  /\ j \in Running /\ futs[j].pc = "lock"
  /\ lock = 0
  /\ lock' = j
  /\ isolated_contexts' = Append(isolated_contexts, Iso(j))
  /\ IF ctx[Iso(j)].has_errors \/ ctx[Iso(j)].errors # <<>>
     THEN /\ ctx' = [ctx EXCEPT ![Root].has_errors = TRUE]
          /\ merged_errors' = merged_errors \o ctx[Iso(j)].errors
     ELSE UNCHANGED <<ctx, merged_errors>>
  /\ futs' = [futs EXCEPT ![j].pc = "unlock"]
  /\ UNCHANGED <<heap, calls, handled, nid>>
  /\ TaskSame /\ ConcSame

\* An apply_to_chunk that returns with context_lock held.
TaskDoneHold(j) ==
  /\ j \in Running /\ futs[j].pc = "unlock"
  /\ futs' = [futs EXCEPT ![j].state = "done", ![j].pc = "none",
                          ![j].doneAt = DoneStamp]
  /\ UNCHANGED <<ctx, heap, calls, handled, nid, lock, merged_errors, isolated_contexts>>
  /\ TaskSame /\ ConcSame

\* The lock is released and apply_to_chunk returns: the future is done.
TaskDone(j) ==
  /\ j \in Running /\ futs[j].pc = "unlock"
  /\ lock' = 0
  /\ futs' = [futs EXCEPT ![j].state = "done", ![j].pc = "none",
                          ![j].doneAt = DoneStamp]
  /\ UNCHANGED <<ctx, heap, calls, handled, nid, merged_errors, isolated_contexts>>
  /\ TaskSame /\ ConcSame

\* An ordered_generator that yields whichever future is done.
OrderedReadyAny(fs, dl) ==
  {j \in 1..Len(fs) : fs[j].state = "done" /\ \A i \in 1..Len(dl) : dl[i] # j}

\* ordered_generator: futures.popleft().result() returns once the oldest
\* future not yet yielded is done.
OrderedReady(fs, dl) ==
  {j \in {Len(dl) + 1} : j <= Len(fs) /\ fs[j].state = "done"}

\* A wait that returns one of the completed futures and leaves the others
\* in the set.
WaitDoneOne(fs, ws) ==
  IF {j \in ws : fs[j].state = "done"} = {} THEN {}
  ELSE {CHOOSE j \in ws : fs[j].state = "done"}

\* unordered_generator: done, futures = wait(futures, FIRST_COMPLETED).
WaitDone(fs, ws) == {j \in ws : fs[j].state = "done"}

\* The calls of wait that have returned.
WaitCount ==
  IF futs = <<>> THEN 0
  ELSE CHOOSE n \in 0..Len(futs) :
         /\ \A j \in 1..Len(futs) : futs[j].waitNo <= n
         /\ n > 0 => \E j \in 1..Len(futs) : futs[j].waitNo = n

\* The futures, those of the set done marked with the call that returned them.
Returned(done) ==
  [j \in 1..Len(futs) |->
     IF j \in done THEN [futs[j] EXCEPT !.waitNo = WaitCount + 1] ELSE futs[j]]

\* An unordered_generator that yields one future of done and forgets the
\* others.
UWaitOne ==
  /\ cphase = "yielding" /\ ~ordered
  /\ batch = {} /\ WaitDone(futs, waitset) # {}
  /\ batch' = {CHOOSE j \in WaitDone(futs, waitset) : TRUE}
  /\ waitset' = waitset \ WaitDone(futs, waitset)
  /\ futs' = Returned(batch')
  /\ UNCHANGED <<gens, ctx, heap, calls, handled, nid, phase, term, outcome, results,
                 errors, consumed, cphase, lock, merged_errors,
                 isolated_contexts, pool, created, delivered>>
  /\ ConcSame

UWait ==
  /\ cphase = "yielding" /\ ~ordered
  /\ batch = {} /\ WaitDone(futs, waitset) # {}
  /\ batch' = WaitDone(futs, waitset)
  /\ waitset' = waitset \ WaitDone(futs, waitset)
  /\ futs' = Returned(batch')
  /\ UNCHANGED <<gens, ctx, heap, calls, handled, nid, phase, term, outcome, results,
                 errors, consumed, cphase, lock, merged_errors,
                 isolated_contexts, pool, created, delivered>>
  /\ ConcSame

\* The futures whose result the generator may yield now.
Ready == IF ordered THEN OrderedReady(futs, delivered) ELSE batch

\* The result of future j is yielded and the consumer takes its items.
Deliver(j) ==
  /\ cphase = "yielding"
  /\ j \in Ready /\ ~futs[j].exc
  /\ delivered' = Append(delivered, j)
  /\ batch' = batch \ {j}
  /\ LET a == ToListChunk(futs[j].res, 1,
                [st |-> St, results |-> results, errors |-> errors,
                 consumed |-> Append(consumed, futs[j].res)], Root)
     IN /\ ctx' = a.st.ctx
        /\ results' = a.results
        /\ errors' = a.errors
        /\ consumed' = a.consumed
  /\ UNCHANGED <<gens, heap, calls, handled, nid, phase, term, outcome, cphase, futs,
                 lock, merged_errors, isolated_contexts, pool, created, waitset>>
  /\ ConcSame

\* A generator that yields an empty result for a task that raised.
DeliverSwallow(j) ==
  /\ cphase = "yielding"
  /\ j \in Ready /\ futs[j].exc
  /\ delivered' = Append(delivered, j)
  /\ batch' = batch \ {j}
  /\ consumed' = Append(consumed, <<>>)
  /\ UNCHANGED <<gens, ctx, heap, calls, handled, nid, phase, term, outcome, results,
                 errors, cphase, futs, lock, merged_errors, isolated_contexts, pool,
                 created, waitset>>
  /\ ConcSame

\* future.result() raises the exception of the task: it leaves the
\* generator through the with block, whose exit shuts the executor down.
DeliverRaise(j) ==
  /\ cphase = "yielding"
  /\ j \in Ready /\ futs[j].exc
  /\ cphase' = "unwinding"
  /\ pool' = "shutting"
  /\ outcome' = "raised"
  /\ UNCHANGED <<gens, ctx, heap, calls, handled, nid, phase, term, results, errors,
                 consumed, futs, lock, merged_errors, isolated_contexts, created,
                 delivered, batch, waitset>>
  /\ ConcSame

\* A generator that leaves the with block once one result is yielded.
DrainedEarly ==
  /\ cphase = "yielding" /\ delivered # <<>>
  /\ cphase' = "closed"
  /\ pool' = "closed"
  /\ outcome' = IF errors # <<>> THEN "CompoundError" ELSE "returned"
  /\ phase' = "done"
  /\ UNCHANGED <<gens, ctx, heap, calls, handled, nid, term, results, errors,
                 consumed, futs, lock, merged_errors, isolated_contexts, created,
                 delivered, batch, waitset>>
  /\ ConcSame

\* The generator has yielded every result: the with block is left, the
\* executor is shut down, the terminal raises or returns.
Drained ==
  /\ cphase = "yielding"
  /\ IF ordered THEN Len(delivered) = Len(futs) ELSE batch = {} /\ waitset = {}
  /\ cphase' = "closed"
  /\ pool' = "closed"
  /\ outcome' = IF errors # <<>> THEN "CompoundError" ELSE "returned"
  /\ phase' = "done"
  /\ UNCHANGED <<gens, ctx, heap, calls, handled, nid, term, results, errors,
                 consumed, futs, lock, merged_errors, isolated_contexts, created,
                 delivered, batch, waitset>>
  /\ ConcSame

\* The consumer of an iteration stops (break) and lets go of the pipeline:
\* the suspended generator is closed, the with block is left, the executor
\* is shut down.
ConsumerStop ==
  /\ cphase = "yielding" /\ term = "iter"
  /\ delivered # <<>>
  /\ cphase' = "unwinding"
  /\ pool' = "shutting"
  /\ outcome' = "abandoned"
  /\ UNCHANGED <<gens, ctx, heap, calls, handled, nid, phase, term, results, errors,
                 consumed, futs, lock, merged_errors, isolated_contexts, created,
                 delivered, batch, waitset>>
  /\ ConcSame

\* executor.shutdown(wait=True) returns: every work item has run.
PoolJoined ==
  /\ cphase = "unwinding"
  /\ \A j \in 1..Len(futs) : futs[j].state = "done"
  /\ cphase' = "closed"
  /\ pool' = "closed"
  /\ phase' = "done"
  /\ UNCHANGED <<gens, ctx, heap, calls, handled, nid, term, outcome, results, errors,
                 consumed, futs, lock, merged_errors, isolated_contexts, created,
                 delivered, batch, waitset>>
  /\ ConcSame

ConcInit == NewPipeline({IntV(0), IntV(1), IntV(2)}, ConcLen)

ConcNext ==
  \/ Concurrent
  \* the workers
  \/ \E j \in 1..Len(futs) : TaskStart(j)
  \/ \E j \in 1..Len(futs) : TaskRun(j)
  \/ \E j \in 1..Len(futs) : TaskChk(j)
  \/ \E j \in 1..Len(futs) : TaskSet(j)
  \/ \E j \in 1..Len(futs) : TaskApp(j)
  \/ \E j \in 1..Len(futs) : TaskMerge(j)
  \/ \E j \in 1..Len(futs) : TaskDone(j)
  \* the consumer of the result pipeline
  \/ PoolStart
  \/ SubmitNext
  \/ UWait
  \/ \E j \in 1..Len(futs) : Deliver(j)
  \/ \E j \in 1..Len(futs) : DeliverRaise(j)
  \/ Drained
  \/ ConsumerStop
  \/ PoolJoined

\* A pipeline over a source with one concurrent operation, consumed by
\* to_list or by an iteration.
SpecConc == ConcInit /\ [][ConcNext]_vars

\* The sequential pipeline: a source, a chain of operations, one terminal.
Spec ==
  /\ NewPipeline({IntV(0), IntV(1), IntV(2), ListV(<<1, 0>>)}, MaxLen)
  /\ [][SeqNext]_vars

IntInit == NewPipeline({IntV(0), IntV(1), IntV(2)}, MaxLen)

\* The sequential pipeline over a source of integers.
SpecInts == IntInit /\ [][SeqNext]_vars

\* The longest source of a concurrent pipeline with more chunks than workers.
LongLen == 3

\* Pipeline.concurrent over a source of up to LongLen zeros.
SpecLong == NewPipeline({IntV(0)}, LongLen) /\ [][ConcNext]_vars

\* --------------------------------------- the pipeline operations were called on
\* p.to_list() on the pipeline p = Pipeline(source, chunk_size) that the
\* operations were called on, after a pipeline was derived from it and,
\* when phase is "done", consumed.
ToListSource ==
  /\ phase \in {"build", "done"} /\ cphase = "off" /\ Len(gens) >= 2
  /\ LET a == ToListLoop(Root, Acc0)
     IN /\ gens' = a.st.gens
        /\ ctx' = a.st.ctx
        /\ heap' = a.st.heap
        /\ calls' = a.st.calls
        /\ handled' = a.st.handled
        /\ nid' = a.st.nid
        /\ results' = a.results
        /\ errors' = a.errors
        /\ consumed' = a.consumed
        /\ outcome' = (IF a.errors # <<>> THEN "CompoundError" ELSE "returned")
        /\ term' = (IF phase = "done" THEN "after" ELSE "before")
        /\ phase' = "source"
  /\ UNCHANGED <<source, size, concVars, parVars, otherVars>>

\* The sequential operations, and the first pipeline consumed after them.
SpecSource == IntInit /\ [][SeqNext \/ ToListSource]_vars

\* ------------------------------------------------------- Pipeline.chain
\* The longest source of a pipeline that is chained after the first.
ChainLen == 2

\* The pipelines chained after the first are Pipeline([0] * n, chunk_size).

\* Pipeline.chain(p1, *others): p1 is the pipeline built so far, the others
\* are new pipelines, each with its own context.
Chain ==
  \E others \in SeqsUpTo([len : 0..ChainLen, size : 1..MaxChunk], 2) :
    /\ phase = "build" /\ cphase = "off" /\ Len(gens) <= 2
    /\ \A i \in 1..Len(gens) : gens[i].kind # "chain"
    /\ LET k1 == Len(gens)
           n == Len(others)
           \* Pipeline(source, chunk_size) for each of the others
           srcs == [i \in 1..n |->
                      LET S == [x \in 1..others[i].len |-> IntV(0)]
                      IN [Gen("source", "none", 0, Len(ctx) + i, others[i].size) EXCEPT
                            !.chunks = ChunkedAndWrap(S, others[i].size, Len(ctx) + i),
                            !.iterable = S]]
           pipelines == <<k1>> \o [i \in 1..n |-> k1 + i]
       IN /\ gens' = (gens \o srcs) \o
                      <<[Gen("chain", "none", 0, gens[k1].cx, gens[k1].size)
                           EXCEPT !.ups = pipelines]>>
          /\ ctx' = ctx \o [i \in 1..n |-> NewContext]
    /\ UNCHANGED <<source, size, heap, calls, handled, nid, phase, term,
                   outcome, results, errors, consumed, concVars, parVars, otherVars>>

\* Chained pipelines and the sequential operations.
SpecChain == ConcInit /\ [][SeqNext \/ Chain]_vars

\* The sequential pipeline over a source of lists.
SpecFlat ==
  /\ NewPipeline({ListV(<<>>), ListV(<<1, 0>>), ListV(<<2>>), IntV(1)}, MaxLen)
  /\ [][SeqNext]_vars

\* ------------------------------------------------------------ properties
RECURSIVE Flat(_)
\* The items of a sequence of chunks, in order.
Flat(chs) == IF chs = <<>> THEN <<>> ELSE Head(chs) \o Flat(Tail(chs))

IsErrored(it) == it.error # NoErr

ErrorsIn(items) ==
  LET e == SelectSeq(items, IsErrored) IN [i \in 1..Len(e) |-> e[i].error]
ValuesIn(items) ==
  LET v == SelectSeq(items, LAMBDA it : it.error = NoErr) IN [i \in 1..Len(v) |-> v[i].value]

\* C1: to_list() and noop() consume the whole stream and raise CompoundError
\* exactly when an item of it is errored; CompoundError.errors is the errors of
\* the errored items, once each, in the order of the stream; without an
\* errored item to_list() returns the values in stream order and noop()
\* returns.
C1_TerminalReportsEveryError ==
  (phase = "done" /\ term \in {"to_list", "noop"}) =>
    LET items == Flat(consumed) IN
    /\ Pull(Top, St).end
    /\ (outcome = "CompoundError") <=> (ErrorsIn(items) # <<>>)
    /\ (outcome # "CompoundError") => outcome = "returned"
    /\ errors = ErrorsIn(items)
    /\ (term = "to_list" /\ outcome = "returned") => results = ValuesIn(items)

C1_Witness ==
  /\ phase = "done" /\ term = "to_list" /\ outcome = "CompoundError"
  /\ Len(errors) >= 2 /\ errors[1] # errors[2]
  /\ Len(consumed) >= 2

\* The indices of the source on which the map function raises.
MapFailures == {i \in 1..Len(source) : MapFn(gens[2].fn, source[i]).raised}

\* C2: in Pipeline(S).map(f).to_list() f is called on every item of S, in
\* order, whatever it raised on earlier items, and CompoundError holds as many
\* errors as there are items on which f raised.
C2_ErrorNonInterference ==
  (phase = "done" /\ term = "to_list" /\ Len(gens) = 2 /\ gens[2].kind = "map") =>
    /\ [i \in 1..Len(calls) |-> calls[i].arg] = source
    /\ Len(errors) = Cardinality(MapFailures)
    /\ (outcome = "CompoundError") <=> (MapFailures # {})

C2_Witness ==
  /\ phase = "done" /\ term = "to_list" /\ Len(gens) = 2 /\ gens[2].kind = "map"
  /\ Len(source) = MaxLen /\ Len(consumed) >= 2
  /\ MapFn(gens[2].fn, source[1]).raised
  /\ ~MapFn(gens[2].fn, source[2]).raised
  /\ MapFn(gens[2].fn, source[3]).raised
  /\ Len(errors) = 2

\* The calls that turned an item into an errored item (a tap's exception does
\* not).
Failing == {i \in 1..Len(calls) : calls[i].raised /\ gens[calls[i].g].kind # "tap"}

\* C3: after an item failed in a map, filter or reduce stage no user function
\* is called on it again, and it reaches the terminal once, with the value it
\* had and the error it got when it failed.
C3_FirstErrorWins ==
  (phase = "done") =>
    LET items == Flat(consumed) IN
    /\ \A i \in Failing : \A j \in 1..Len(calls) :
         calls[j].id = calls[i].id => j <= i
    /\ \A i \in Failing :
         Cardinality({n \in 1..Len(items) :
            items[n] = Item(calls[i].id, calls[i].arg,
                            Err(calls[i].g, gens[calls[i].g].kind, calls[i].arg),
                            items[n].context)}) = 1
    /\ Cardinality({n \in 1..Len(items) : IsErrored(items[n])}) = Cardinality(Failing)

C3_Witness ==
  /\ phase = "done" /\ Len(gens) = 3
  /\ \E i \in Failing : calls[i].g = 2 /\ \E j \in 1..Len(calls) : calls[j].g = 3
  /\ \E i \in Failing : calls[i].g = 3

\* Every item the program holds: in the buffers of the generators and in the
\* chunks the terminal received.
HeldItems ==
  UNION {{G.buf[i] : i \in 1..Len(G.buf)} \cup {G.pend[i] : i \in 1..Len(G.pend)}
         \cup {G.errs[i] : i \in 1..Len(G.errs)}
         \cup {Flat(G.chunks)[i] : i \in 1..Len(Flat(G.chunks))}
         : G \in {gens[g] : g \in 1..Len(gens)}}
  \cup {Flat(consumed)[i] : i \in 1..Len(Flat(consumed))}

\* C4: an item that carries an error holds the value that was passed to the
\* call that raised it.
C4_ErroredItemKeepsInput ==
  \A it \in HeldItems : IsErrored(it) => it.value = it.error.arg

C4_Witness ==
  /\ phase = "done"
  /\ \E it \in HeldItems : IsErrored(it) /\ it.error.by = "map" /\ it.error.k = 3
  /\ \E it \in HeldItems : IsErrored(it) /\ it.error.by = "filter"

\* --------------------------------------------------- concurrent dispatch
DEFAULT_CHUNK_SIZE == 1000

\* Pipeline(source).apply(pipeline_func).to_list(), run on its own: what it
\* collects.
Sequential ==
  LET base == <<[Gen("source", "none", 0, Root, DEFAULT_CHUNK_SIZE) EXCEPT
                   !.chunks = ChunkedAndWrap(source, DEFAULT_CHUNK_SIZE, Root)]>>
      gs == PipelineFunc(gfun, base)
      st0 == [gens |-> gs, ctx |-> <<NewContext>>, heap |-> <<>>, calls |-> <<>>,
              handled |-> <<>>, nid |-> Len(source) + 1]
  IN ToListLoop(Len(gs), [st |-> st0, results |-> <<>>, errors |-> <<>>,
                          consumed |-> <<>>])

\* The concurrent pipeline was consumed to its end by to_list.
FullyConsumed == cphase = "closed" /\ term = "to_list" /\ outcome # "raised"

\* How often each element occurs in a sequence.
BagOf(s) ==
  [v \in {s[i] : i \in 1..Len(s)} |-> Cardinality({i \in 1..Len(s) : s[i] = v})]

\* C5: with ordered=True and a map/filter chain g that raises on no item of
\* S, concurrent(g).to_list() returns the list that apply(g).to_list()
\* returns, whatever the order in which the workers complete.
C5_OrderedEquivalence ==
  (FullyConsumed /\ ordered /\ gfun \in {"map", "mapfilter"}
     /\ Sequential.errors = <<>>) =>
    /\ outcome = "returned"
    /\ results = Sequential.results

C5_Witness ==
  /\ FullyConsumed /\ ordered /\ gfun = "mapfilter" /\ Sequential.errors = <<>>
  /\ Len(futs) = 2 /\ isolated_contexts = <<Iso(2), Iso(1)>>
  /\ Len(results) = 1 /\ source[1] # source[2]
  /\ outcome = "returned"

\* The chunks the upstream of the concurrent operation yields.
UpstreamChunks == ChunkedAndWrap(source, size, Root)

\* C6: with ordered=False to_list receives the result of every upstream
\* chunk exactly once, whatever the order in which the workers complete, and
\* it collects the values and the errors apply(g).to_list() collects, each as
\* many times.
C6_UnorderedExactlyOnce ==
  (FullyConsumed /\ ~ordered) =>
    /\ Len(futs) = Len(UpstreamChunks)
    /\ \A j \in 1..Len(futs) : futs[j].chunk = UpstreamChunks[j]
    /\ \A j \in 1..Len(futs) :
         Cardinality({i \in 1..Len(delivered) : delivered[i] = j}) = 1
    /\ consumed = [i \in 1..Len(delivered) |-> futs[delivered[i]].res]
    /\ gfun \in {"map", "mapfilter"} =>
         /\ BagOf(results) = BagOf(Sequential.results)
         /\ BagOf(errors) = BagOf(Sequential.errors)

C6_Witness ==
  /\ FullyConsumed /\ ~ordered /\ gfun = "map"
  /\ delivered = <<2, 1>>
  /\ Len(results) = 2 /\ results[1] # results[2]
  /\ outcome = "returned"

\* C7: when the function of the sub-pipeline's map creates the list
\* context["pv"] if the key is absent and appends its value to it, the list of
\* the parent context holds every item of the source exactly once after
\* to_list, in every interleaving of the workers.
C7_ContextListComplete ==
  (FullyConsumed /\ gfun = "lappend" /\ source # <<>>) =>
    /\ ctx[Root].pv # 0
    /\ BagOf(heap[ctx[Root].pv]) = BagOf(source)

\* C8: once a worker has completed its chunk, every record of the errors list
\* of its isolated context is in the errors list of the parent context, and
\* the parent's has_errors is true if the isolated context's is.
C8_ErrorsMerged ==
  \A j \in 1..Len(futs) :
    (futs[j].state = "done" /\ ~futs[j].exc) =>
      /\ \A i \in 1..Len(ctx[Iso(j)].errors) :
           \E k \in 1..Len(ctx[Root].errors) :
             ctx[Root].errors[k] = ctx[Iso(j)].errors[i]
      /\ ctx[Iso(j)].has_errors => ctx[Root].has_errors

\* C9: once a worker has completed its chunk, a key that its sub-pipeline
\* wrote into its isolated context is in the parent context, and after
\* to_list the parent holds under it a value that a worker wrote.
C9_UserKeysMerged ==
  /\ \A j \in 1..Len(futs) :
       (futs[j].state = "done" /\ ctx[Iso(j)].seen # -1) => ctx[Root].seen # -1
  /\ (FullyConsumed /\ \E j \in 1..Len(futs) : ctx[Iso(j)].seen # -1) =>
       \E j \in 1..Len(futs) : ctx[Root].seen = ctx[Iso(j)].seen

\* The executor is shut down, or being shut down.
PoolDown == pool \in {"shutting", "closed"}

\* The consumer has received the result of every submitted chunk.
AllDelivered ==
  \A j \in 1..Len(futs) : \E i \in 1..Len(delivered) : delivered[i] = j

\* C10 as stated: the pool is not shut down while the result of a chunk is
\* undelivered, also when the consumer stops early or a result raises.
C10_ShutdownAfterLastResult == PoolDown => AllDelivered

\* C10: the pool is created once and no result is delivered after its
\* shutdown; when the consumer takes every result and none raises, the pool
\* is shut down only after the last result was delivered; when the consumer
\* stops early or a result raises, the pool is shut down then, and the
\* results not yet delivered stay undelivered.
C10_PoolLifetime ==
  /\ [](created <= 1 /\ (pool # "none" => created = 1))
  /\ [][PoolDown => delivered' = delivered]_vars
  /\ []((PoolDown /\ outcome \notin {"raised", "abandoned"}) => AllDelivered)
  /\ [](outcome \in {"raised", "abandoned"} => PoolDown)
  /\ [](outcome = "raised" => ~AllDelivered)
  /\ [](cphase = "closed" => pool = "closed")

C10_Witness ==
  /\ pool = "closed" /\ outcome = "abandoned"
  /\ Len(futs) = 2 /\ delivered = <<1>>
  /\ \A j \in 1..Len(futs) : futs[j].state = "done"

\* The tasks whose pipeline function raised.
Raisers == {j \in 1..Len(futs) : futs[j].exc}

\* C11: the exception of a task whose function raised is raised to the
\* consumer when the result of its chunk is retrieved: the result is never
\* delivered as a value, a to_list that has ended raised it and not
\* CompoundError, and with ordered=True exactly the results of the chunks
\* submitted before the failing chunk were delivered before it.
C11_WorkerFailurePropagates ==
  /\ \A i \in 1..Len(delivered) : delivered[i] \notin Raisers
  /\ (cphase = "closed" /\ term = "to_list" /\ Raisers # {}) => outcome = "raised"
  /\ outcome = "raised" =>
       /\ Raisers # {}
       /\ ordered =>
            /\ Len(delivered) + 1 \in Raisers
            /\ delivered = [i \in 1..Len(delivered) |-> i]
            /\ \A j \in Raisers : j > Len(delivered)

C11_Witness ==
  /\ cphase = "closed" /\ term = "to_list" /\ outcome = "raised" /\ ordered
  /\ Len(futs) = 2 /\ delivered = <<1>> /\ Raisers = {2}
  /\ errors # <<>>

\* C12: once has_errors of the context of the root pipeline is true, no
\* intermediate operation, concurrent dispatch (with its isolated copies and
\* merges) or terminal operation sets it back to false.
C12_HasErrorsMonotonic ==
  [][ctx[Root].has_errors => ctx'[Root].has_errors]_vars

\* A worker made its isolated copy, with has_errors false, of a parent
\* context whose has_errors was true.
C12_Witness ==
  /\ ctx[Root].has_errors
  /\ \E j \in 1..Len(futs) :
       /\ futs[j].state = "running" /\ ~ctx[Iso(j)].has_errors
       /\ \E k \in 1..Len(delivered) : delivered[k] < j

\* The last operation of the pipeline is of this kind and to_list has run on
\* the pipeline.
ToListOver(kind) ==
  phase = "done" /\ term = "to_list" /\ Len(gens) >= 2 /\ gens[Top].kind = kind

\* C13: when f raises on no item of S, Pipeline(S, n).map(f).to_list()
\* returns [f(x) for x in S], in source order, for every chunk size n.
C13_MapPreservesOrder ==
  (ToListOver("map") /\ Len(gens) = 2 /\ MapFailures = {}) =>
    /\ outcome = "returned"
    /\ results = [i \in 1..Len(source) |-> MapFn(gens[2].fn, source[i]).val]

C13_Witness ==
  /\ ToListOver("map") /\ Len(gens) = 2 /\ MapFailures = {}
  /\ Len(source) = 3 /\ size = 2
  /\ results = <<IntV(2), IntV(0), IntV(2)>>

\* ------------------------------------------------------------- chunking
\* list(itertools.islice(data_iter, n)): the next n items, or those left.
Islice(S, n) == SubSeq(S, 1, IF Len(S) < n THEN Len(S) ELSE n)

RECURSIVE ChunkGeneratorLoop(_, _, _)
\* Transformer._chunk_generator: while chunk := list(islice(...)): yield chunk
ChunkGeneratorLoop(S, n, out) ==
  IF Islice(S, n) = <<>> THEN out
  ELSE ChunkGeneratorLoop(SubSeq(S, Len(Islice(S, n)) + 1, Len(S)), n,
                          Append(out, Islice(S, n)))

\* Transformer._chunk_generator(data), chunk_size n: the chunks it yields.
ChunkGenerator(S, n) == ChunkGeneratorLoop(S, n, <<>>)

\* The values of the items of a sequence of chunks of items.
ChunkValues(chs) ==
  [k \in 1..Len(chs) |-> [i \in 1..Len(chs[k]) |-> chs[k][i].value]]

\* chs is a chunking of S by n.
IsChunking(chs, S, n) ==
  /\ Flat(chs) = S
  /\ \A k \in 1..Len(chs) :
       /\ chs[k] # <<>>
       /\ Len(chs[k]) <= n
       /\ k < Len(chs) => Len(chs[k]) = n
  /\ S = <<>> => chs = <<>>

\* C14: the chunks the chunker yields concatenate to the source, each but the
\* last holds chunk_size items, none is empty and an empty source yields no
\* chunk; it holds of the chunks a terminal receives from
\* Pipeline._chunked_and_wrap and of Transformer._chunk_generator.
C14_ChunkingCorrect ==
  /\ IsChunking(ChunkValues(UpstreamChunks), source, size)
  /\ \A k \in 1..Len(UpstreamChunks) : \A i \in 1..Len(UpstreamChunks[k]) :
       UpstreamChunks[k][i].error = NoErr /\ UpstreamChunks[k][i].context = Root
  /\ (phase = "done" /\ Len(gens) = 1) => consumed = UpstreamChunks
  /\ IsChunking(ChunkGenerator(source, size), source, size)

C14_Witness ==
  /\ phase = "done" /\ Len(gens) = 1
  /\ Len(source) = 3 /\ size = 2
  /\ Len(consumed) = 2 /\ Len(consumed[1]) = 2 /\ Len(consumed[2]) = 1

\* -------------------------------------------------------------- flatten
RECURSIVE Expand(_)
\* The values flatten makes of the values S: the elements of a list, in
\* order, and any other value itself.
Expand(S) ==
  IF S = <<>> THEN <<>>
  ELSE (IF Head(S).isList
        THEN [i \in 1..Len(Head(S).xs) |-> IntV(Head(S).xs[i])]
        ELSE <<Head(S)>>) \o Expand(Tail(S))

\* C15: the stream of flatten() is the concatenation, in order, of the inner
\* elements of the values (an empty list contributes nothing), in chunks of
\* chunk_size items but possibly the last, none of them empty, whatever the
\* sizes of the lists and of the chunks that come in.
C15_FlattenRechunks ==
  (ToListOver("flatten") /\ Len(gens) = 2) =>
    /\ IsChunking(ChunkValues(consumed), Expand(source), size)
    /\ \A k \in 1..Len(consumed) : \A i \in 1..Len(consumed[k]) :
         consumed[k][i].error = NoErr
    /\ outcome = "returned" /\ results = Expand(source)

C15_Witness ==
  /\ ToListOver("flatten") /\ Len(gens) = 2
  /\ source = <<ListV(<<>>), ListV(<<1, 0>>), ListV(<<2>>)>> /\ size = 2
  /\ results = <<IntV(1), IntV(0), IntV(2)>>
  /\ Len(consumed) = 2

\* --------------------------------------------------------------- reduce
\* to_list run on generator k of the pipeline as built: what it collects
\* and the state it leaves.
RunOf(k) ==
  ToListLoop(k, [st |-> [gens |-> [i \in 1..k |->
                                    IF i = 1
                                    THEN [Gen("source", "none", 0, Root, size) EXCEPT
                                            !.chunks = ChunkedAndWrap(source, size, Root)]
                                    ELSE Gen(gens[i].kind, gens[i].fn, i - 1, Root, size)],
                         ctx |-> <<NewContext>>,
                         heap |-> <<>>, calls |-> <<>>, handled |-> <<>>,
                         nid |-> Len(source) + 1],
                 results |-> <<>>, errors |-> <<>>, consumed |-> <<>>])

\* The items that generator k of the pipeline yields, in order.
StreamOf(k) == Flat(RunOf(k).consumed)

RECURSIVE FoldOf(_, _, _)
\* f folded from acc over the items without an error, in order, an item on
\* which f raises leaving the accumulator as it is.
FoldOf(g, items, acc) ==
  IF items = <<>> THEN acc
  ELSE LET r == ReduceFn(gens[g].fn, acc, Head(items).value)
       IN FoldOf(g, Tail(items),
                 IF IsErrored(Head(items)) \/ r.raised THEN acc ELSE r.val)

RECURSIVE SetAsideOf(_, _, _)
\* The items reduce sets aside: those that arrive with an error, unchanged,
\* and those on which f raises, with the value they had and that error.
SetAsideOf(g, items, acc) ==
  IF items = <<>> THEN <<>>
  ELSE LET it == Head(items)
           r == ReduceFn(gens[g].fn, acc, it.value)
       IN IF IsErrored(it) THEN <<it>> \o SetAsideOf(g, Tail(items), acc)
          ELSE IF r.raised
          THEN <<Item(it.id, it.value, Err(g, "reduce", it.value), it.context)>>
               \o SetAsideOf(g, Tail(items), acc)
          ELSE SetAsideOf(g, Tail(items), r.val)

\* C16: reduce(f, initial) emits the items set aside, if there are any, as
\* one chunk, and then one chunk of one item without an error, whose value is
\* f folded from initial over the items without an error in stream order;
\* over an empty stream that value is initial.
C16_ReduceFolds ==
  ToListOver("reduce") =>
    LET in == StreamOf(Top - 1)
        aside == SetAsideOf(Top, in, IntV(0))
        res == consumed[Len(consumed)]
    IN /\ Len(consumed) = IF aside = <<>> THEN 1 ELSE 2
       /\ aside # <<>> => consumed[1] = aside
       /\ Len(res) = 1
       /\ res[1].value = FoldOf(Top, in, IntV(0))
       /\ res[1].error = NoErr /\ res[1].context = Root
       /\ results = <<FoldOf(Top, in, IntV(0))>>
       /\ in = <<>> => results = <<IntV(0)>>

\* reduce(f, 0) over <<1, 0, 2>>: f folds 1 and then 0 and raises on 2.
C16_Witness ==
  /\ ToListOver("reduce") /\ Len(gens) = 2
  /\ source = <<IntV(1), IntV(0), IntV(2)>>
  /\ Len(consumed) = 2 /\ Len(consumed[1]) = 1
  /\ consumed[1][1].error.by = "reduce"
  /\ results = <<IntV(2)>>

\* ---------------------------------------------------------------- first
\* first() has run on the pipeline.
FirstRan == phase = "done" /\ term = "first"

\* C17 as stated: first() raises StopIteration whenever the stream holds no
\* item without an error, also when it holds items and each has an error.
C17_EmptyWheneverNoSuccess ==
  (FirstRan /\ ValuesIn(Flat(consumed)) = <<>>) => outcome = "StopIteration"

\* C17: first() consumes the whole stream; it raises CompoundError when an
\* item of the stream has an error, also when every item has one; it raises
\* StopIteration when the stream holds no item at all; otherwise it returns
\* the first value of the stream.
C17_FirstOutcome ==
  FirstRan =>
    LET items == Flat(consumed) IN
    /\ Pull(Top, St).end
    /\ (outcome = "CompoundError") <=> (ErrorsIn(items) # <<>>)
    /\ outcome = "CompoundError" => errors = ErrorsIn(items)
    /\ (outcome = "StopIteration") <=> (items = <<>>)
    /\ (outcome = "returned") <=> (items # <<>> /\ ErrorsIn(items) = <<>>)
    /\ outcome = "returned" => results = <<items[1].value>>

\* Every item of a source of several items failed in map, and first() raised
\* CompoundError.
C17_Witness ==
  /\ FirstRan /\ Len(gens) = 2 /\ gens[2].kind = "map"
  /\ Len(source) >= 2
  /\ ValuesIn(Flat(consumed)) = <<>>
  /\ outcome = "CompoundError" /\ Len(errors) = Len(source)

\* --------------------------------------------------------------- filter
RECURSIVE FilterOf(_, _)
\* What filter makes of a stream of items: an item with an error stays, an
\* item on which the predicate raises stays with that error, of the others
\* those stay on which the predicate is true.
FilterOf(g, items) ==
  IF items = <<>> THEN <<>>
  ELSE LET it == Head(items)
           r == FilterFn(gens[g].fn, it.value)
       IN (IF IsErrored(it) THEN <<it>>
           ELSE IF r.raised
           THEN <<Item(it.id, it.value, Err(g, "filter", it.value), it.context)>>
           ELSE IF r.val.n # 0 THEN <<it>> ELSE <<>>) \o FilterOf(g, Tail(items))

\* C18: filter keeps, unchanged and in order, the items without an error on
\* which the predicate is true, drops those on which it is false, and keeps
\* as an errored item with that exception those on which it raises; a drop
\* records no error and does not set has_errors.
C18_FilterKeepsDropsOrErrors ==
  ToListOver("filter") =>
    LET in == StreamOf(Top - 1) IN
    /\ Flat(consumed) = FilterOf(Top, in)
    /\ Len(consumed) = Len(RunOf(Top - 1).consumed)
    /\ errors = ErrorsIn(FilterOf(Top, in))
    /\ ctx[Root].has_errors <=> (ErrorsIn(FilterOf(Top, in)) # <<>>)
    /\ ctx[Root].errors = RunOf(Top - 1).st.ctx[Root].errors

\* filter(keep0) over <<0, 1, 2>>: 0 is kept, 1 is dropped, the predicate
\* raises on 2.
C18_Witness ==
  /\ ToListOver("filter") /\ Len(gens) = 2
  /\ source = <<IntV(0), IntV(1), IntV(2)>>
  /\ results = <<IntV(0)>>
  /\ errors = <<Err(2, "filter", IntV(2))>>

\* The calls that generator g made of its function, in the order made.
CallsOf(g, cs) == SelectSeq(cs, LAMBDA c : c.g = g)

\* The calls that tap makes over a stream: one per item without an error,
\* in the order of the stream.
RECURSIVE TapCallsOf(_, _)
TapCallsOf(g, items) ==
  IF items = <<>> THEN <<>>
  ELSE LET it == Head(items) IN
       (IF IsErrored(it) THEN <<>>
        ELSE <<[g |-> g, id |-> it.id, arg |-> it.value,
                raised |-> TapFn(gens[g].fn, it.value).raised]>>)
       \o TapCallsOf(g, Tail(items))

\* C19: tap yields the chunks it receives unchanged (same items, values,
\* errors, order and chunk boundaries); the function is called once on every
\* item without an error, in stream order, and never on an errored item; a
\* call that raises leaves the item and has_errors as they were and the
\* calls on the later items are still made.
C19_TapLeavesStreamUnchanged ==
  ToListOver("tap") =>
    LET up == RunOf(Top - 1) IN
    /\ consumed = up.consumed
    /\ CallsOf(Top, calls) = TapCallsOf(Top, Flat(up.consumed))
    /\ \A g \in 1..(Top - 1) : CallsOf(g, calls) = CallsOf(g, up.st.calls)
    /\ ctx[Root].has_errors = up.st.ctx[Root].has_errors
    /\ ctx[Root].errors = up.st.ctx[Root].errors
    /\ errors = ErrorsIn(Flat(up.consumed))

\* map(inc).tap(log) over <<0, 1, 0>>: map raises on 0, so tap is called
\* on the middle item only; and tap(log) over <<1, 2>>: the call on 1 raises,
\* the call on 2 is still made and nothing is marked.
C19_Witness ==
  /\ ToListOver("tap")
  /\ \/ /\ Len(gens) = 3 /\ gens[2].kind = "map"
        /\ source = <<IntV(0), IntV(1), IntV(0)>>
        /\ Len(CallsOf(3, calls)) = 1 /\ Len(errors) = 2
     \/ /\ Len(gens) = 2 /\ source = <<IntV(1), IntV(2)>>
        /\ Len(calls) = 2 /\ calls[1].raised /\ ~calls[2].raised
        /\ results = <<IntV(1), IntV(2)>> /\ ~ctx[Root].has_errors

\* The errored items of a stream, in order.
ErroredIn(items) == SelectSeq(items, IsErrored)

\* The pipeline is the result of catch(pipeline_func, on_error) and a
\* terminal operation has consumed it.
CatchConsumed == phase = "done" /\ Len(gens) >= 2 /\ gens[Top].kind = "errtap"

\* C20: when the pipeline that catch returns is consumed, on_error is called
\* once per errored item of pipeline_func(self), in stream order and whether
\* or not an earlier call raised; one {value, error} record per errored item
\* is appended to context["errors"]; without an errored item on_error is not
\* called; the items keep their errors, so the terminal operation raises
\* CompoundError with as many errors as on_error was called.
C20_CatchObserves ==
  CatchConsumed =>
    LET up == RunOf(Top - 1)
        in == Flat(up.consumed)
        mine == SelectSeq(handled, LAMBDA h : h.g = Top)
    IN /\ mine = [i \in 1..Len(ErroredIn(in)) |->
                    LET it == ErroredIn(in)[i]
                    IN [g |-> Top, id |-> it.id, error |-> it.error,
                        raised |-> OnErrorFn(gens[Top].fn, it.error).raised]]
       /\ BagOf(ctx[Root].errors) = BagOf(up.st.ctx[Root].errors \o
                  [i \in 1..Len(ErroredIn(in)) |->
                     [value |-> ErroredIn(in)[i].value,
                      error |-> ErroredIn(in)[i].error]])
       /\ consumed = up.consumed
       /\ errors = ErrorsIn(in)
       /\ Len(errors) = Len(mine)
       /\ (outcome = "CompoundError") <=> (mine # <<>>)
       /\ ErroredIn(in) # <<>> => ctx[Root].has_errors

\* catch(filter(keep0), on_error) over <<2, 0, 2>>: the predicate raises on
\* both 2s, on_error is called for each and raises each time, two records
\* are kept and the terminal raises CompoundError with two errors.
C20_Witness ==
  /\ CatchConsumed /\ Len(gens) = 3 /\ gens[2].kind = "filter"
  /\ source = <<IntV(2), IntV(0), IntV(2)>>
  /\ Len(handled) = 2 /\ handled[1].raised /\ handled[2].raised
  /\ handled[1].id < handled[2].id
  /\ Len(ctx[Root].errors) = 2
  /\ outcome = "CompoundError" /\ Len(errors) = 2

\* C21: when on_error raises for an errored item, the exception goes no
\* further: on_error is still called for every later errored item, every
\* chunk is passed on as it was received, and the terminal operation raises
\* CompoundError with the errors of the items and nothing of the handler's.
C21_HandlerFailureSuppressed ==
  (CatchConsumed /\ \E i \in 1..Len(handled) : handled[i].g = Top /\ handled[i].raised) =>
    LET up == RunOf(Top - 1)
        in == Flat(up.consumed)
        mine == SelectSeq(handled, LAMBDA h : h.g = Top)
    IN /\ [i \in 1..Len(mine) |-> mine[i].id]
            = [i \in 1..Len(ErroredIn(in)) |-> ErroredIn(in)[i].id]
       /\ consumed = up.consumed
       /\ outcome = "CompoundError"
       /\ errors = [i \in 1..Len(ErroredIn(in)) |-> ErroredIn(in)[i].error]
       /\ \A i \in 1..Len(errors) : errors[i].by # "errtap"

\* catch(filter(keep0), on_error) over <<2, 2>> in chunks of one: on_error
\* raises in the first chunk and is called again in the second.
C21_Witness ==
  /\ CatchConsumed /\ Len(gens) = 3 /\ gens[2].kind = "filter" /\ size = 1
  /\ source = <<IntV(2), IntV(2)>>
  /\ Len(handled) = 2 /\ handled[1].raised
  /\ Len(consumed) = 2
  /\ outcome = "CompoundError"
  /\ errors = <<Err(2, "filter", IntV(2)), Err(2, "filter", IntV(2))>>

RECURSIVE ChunksOfAll(_, _)
\* The chunks of the pipelines ks[i..], each consumed on its own, one
\* pipeline after the other.
ChunksOfAll(ks, i) ==
  IF i > Len(ks) THEN <<>>
  ELSE (IF i = 1 THEN RunOf(ks[1]).consumed
        ELSE ChunkedAndWrap(gens[ks[i]].iterable, gens[ks[i]].size, gens[ks[i]].cx))
       \o ChunksOfAll(ks, i + 1)

\* C22: the pipeline that chain(p1, ..., pn) returns yields the chunks of p1,
\* then those of p2, and so on, each pipeline's chunks in their order and as
\* that pipeline cut them; a pipeline without items adds no chunk; its
\* chunk_size and context are those of p1.
C22_ChainConcatenates ==
  (phase = "done" /\ gens[Top].kind = "chain") =>
    LET C == gens[Top] IN
    /\ consumed = ChunksOfAll(C.ups, 1)
    /\ C.size = gens[C.ups[1]].size
    /\ C.cx = gens[C.ups[1]].cx
    /\ \A i \in 2..Len(C.ups) :
         gens[C.ups[i]].iterable = <<>> =>
           \A n \in 1..Len(consumed) : \A m \in 1..Len(consumed[n]) :
             consumed[n][m].context # gens[C.ups[i]].cx

\* chain(Pipeline([1, 2], 2).filter(keep0), Pipeline([], 1), Pipeline([0, 0], 1)):
\* the empty chunk that filter yields, then two chunks of one item of the
\* third pipeline.
C22_Witness ==
  /\ (phase = "done" /\ gens[Top].kind = "chain") /\ term = "to_list" /\ Len(gens) = 5
  /\ gens[2].kind = "filter" /\ size = 2
  /\ source = <<IntV(1), IntV(2)>>
  /\ gens[3].iterable = <<>> /\ gens[4].iterable = <<IntV(0), IntV(0)>>
  /\ gens[4].size = 1
  /\ Len(consumed) = 3 /\ Len(consumed[1]) = 1 /\ consumed[2][1].context = 3
  /\ results = <<IntV(0), IntV(0)>>

\* C23: map, filter, flatten, tap and reduce leave the pipeline p they are
\* called on as it was: p.to_list(), run after a pipeline was derived from p
\* and whether or not the derived pipeline was consumed, returns what p
\* returns when nothing was derived from it.
C23_SourceNotMutated ==
  phase = "source" =>
    /\ consumed = ChunkedAndWrap(source, size, Root)
    /\ results = source
    /\ outcome = "returned"

\* ------------------------------------------------- ParallelTransformer
\* The longest data given to a call of the transformer.
ParLen == 3

\* The chains of operations of the transformer:
\*   map(increment_counter), or map(increment_counter).filter(lambda x: x != 4)
\* with increment_counter(x, ctx): with ctx["lock"]: ctx["count"] += 1; return x * 2

\* ParallelTransformer(max_workers, ordered, chunk_size).map(...)[.filter(...)];
\* Transformer.__init__ gives it a context of its own.
ParInit ==
  /\ NoPipeline
  /\ Others("none")
  /\ pt \in [max_workers : 1..MaxWorkers, ordered : BOOLEAN,
              chunk_size : 1..MaxChunk, transformer : {<<"map">>, <<"map", "filter">>},
              context : {1}]
  /\ contexts = <<[count |-> 0, lock |-> 0]>>
  /\ locks = <<>>
  /\ runs = <<>>

\* executor.submit(process_chunk_with_context, chunk): the new future.
NewFuture(chunk) ==
  [chunk |-> chunk, state |-> "pending", pc |-> "none", i |-> 1,
   c |-> 0,            \* the context std_function passes to the function
   tmp |-> 0,          \* the count the function read
   got |-> <<>>,       \* the contexts the function was called with, per item
   res |-> <<>>,       \* the values the function returned
   result |-> <<>>,    \* Future.result()
   doneAt |-> 0]       \* the task was the doneAt-th of its run to complete

\* A generator that submits every chunk that is left.
SubmitChunksAll(R, k) ==
  LET n == Len(R.chunks)
      idx == [i \in 1..n |-> Len(R.futures) + i]
  IN [R EXCEPT !.futures = @ \o [i \in 1..n |-> NewFuture(R.chunks[i])],
               !.chunks = <<>>,
               !.queue = IF pt.ordered THEN @ \o idx ELSE @,
               !.waitset = IF pt.ordered THEN @ ELSE @ \cup {idx[i] : i \in 1..n}]

\* The next k chunks of chunks_iter (those left, if fewer) are submitted.
SubmitChunks(R, k) ==
  LET n == IF Len(R.chunks) < k THEN Len(R.chunks) ELSE k
      idx == [i \in 1..n |-> Len(R.futures) + i]
  IN [R EXCEPT !.futures = @ \o [i \in 1..n |-> NewFuture(R.chunks[i])],
               !.chunks = SubSeq(@, n + 1, Len(@)),
               !.queue = IF pt.ordered THEN @ \o idx ELSE @,
               !.waitset = IF pt.ordered THEN @ ELSE @ \cup {idx[i] : i \in 1..n}]

ParOther == UNCHANGED <<seqVars, concVars, otherVars>>

\* ParallelTransformer.__call__(data, context), with a new context that
\* holds count = 0: self.context = context; self.context["lock"] = Lock();
\* partial(process_chunk, shared_context=self.context).  Nothing runs before
\* the iterator it returns is advanced.
DoCall(n) ==
    LET c == Len(contexts) + 1 IN
    /\ contexts' = Append(contexts, [count |-> 0, lock |-> Len(locks) + 1])
    /\ locks' = Append(locks, <<>>)
    /\ pt' = [pt EXCEPT !.context = c]
    \* the state of the call: shared_context (bound by functools.partial),
    \* data, and the locals of result_iterator_manager and of its generator
    /\ runs' = Append(runs, [ctx |-> c, data |-> [i \in 1..n |-> i], phase |-> "new",
                             chunks |-> <<>>, futures |-> <<>>, queue |-> <<>>,
                             waitset |-> {}, batch |-> {}, out |-> <<>>])
    /\ ParOther

\* The first call of the instance.
Call == runs = <<>> /\ \E n \in 0..ParLen : DoCall(n)

\* A second call of the same instance, with another context and one item.
CallAgain == Len(runs) = 1 /\ DoCall(1)

\* The first next() on the iterator of call r: the executor is created and
\* the generator submits its first max_workers + 1 chunks.
ParStart(r) ==
  /\ runs[r].phase = "new"
  /\ runs' = [runs EXCEPT ![r] =
       SubmitChunks([@ EXCEPT !.phase = "running",
                              !.chunks = ChunkGenerator(runs[r].data, pt.chunk_size)],
                    pt.max_workers + 1)]
  /\ UNCHANGED <<pt, contexts, locks>>
  /\ ParOther

ParPending(r) == {j \in 1..Len(runs[r].futures) : runs[r].futures[j].state = "pending"}

\* A worker of call r takes the oldest pending task: process_chunk starts
\* with self.context = shared_context.
ParTaskStart(r, j) ==
  /\ runs[r].phase = "running"
  /\ j \in ParPending(r) /\ \A k \in ParPending(r) : j <= k
  /\ Cardinality({k \in 1..Len(runs[r].futures) :
                    runs[r].futures[k].state = "running"}) < pt.max_workers
  /\ pt' = [pt EXCEPT !.context = runs[r].ctx]
  /\ runs' = [runs EXCEPT ![r].futures[j].state = "running",
                          ![r].futures[j].pc = "call"]
  /\ UNCHANGED <<contexts, locks>>
  /\ ParOther

\* std_function(x): lambda value: func(value, self.context), from
\* _create_context_aware_function: self.context is read at the call.
ParTaskCall(r, j) ==
  /\ runs[r].futures[j].state = "running" /\ runs[r].futures[j].pc = "call"
  /\ runs' = [runs EXCEPT ![r].futures[j].c = pt.context,
                          ![r].futures[j].got = Append(@, pt.context),
                          ![r].futures[j].pc = "lock"]
  /\ UNCHANGED <<pt, contexts, locks>>
  /\ ParOther

\* A lock that anyone may take at any time.
LockFreeAlways(l) == TRUE

\* threading.Lock: acquire blocks while the lock is held.
LockFree(l) == locks[l] = <<>>

\* with ctx["lock"]: current = ctx["count"]
ParTaskLock(r, j) ==
  LET F == runs[r].futures[j] IN
  /\ F.state = "running" /\ F.pc = "lock"
  /\ LockFree(contexts[F.c].lock)
  /\ locks' = [locks EXCEPT ![contexts[F.c].lock] = <<r, j>>]
  /\ runs' = [runs EXCEPT ![r].futures[j].tmp = contexts[F.c].count,
                          ![r].futures[j].pc = "incr"]
  /\ UNCHANGED <<pt, contexts>>
  /\ ParOther

\* ctx["count"] = current + 1; the lock is released; return x * 2; and the
\* list comprehension of map goes on to the next item of the chunk.
ParTaskIncr(r, j) ==
  LET F == runs[r].futures[j] IN
  /\ F.state = "running" /\ F.pc = "incr"
  /\ contexts' = [contexts EXCEPT ![F.c].count = F.tmp + 1]
  /\ locks' = [locks EXCEPT ![contexts[F.c].lock] = <<>>]
  /\ runs' = [runs EXCEPT ![r].futures[j].res = Append(@, 2 * F.chunk[F.i]),
                          ![r].futures[j].i = @ + 1,
                          ![r].futures[j].pc =
                             IF F.i + 1 > Len(F.chunk) THEN "ret" ELSE "call"]
  /\ UNCHANGED pt
  /\ ParOther

\* The operations composed after map, applied to the chunk map returned.
ApplyRest(ops, chunk) ==
  IF Len(ops) = 2 THEN SelectSeq(chunk, LAMBDA v : v # 4) ELSE chunk

\* self.transformer(chunk) returns: the future is done.
ParTaskDone(r, j) ==
  LET F == runs[r].futures[j] IN
  /\ F.state = "running" /\ F.pc = "ret"
  /\ runs' = [runs EXCEPT
       ![r].futures[j].state = "done",
       ![r].futures[j].pc = "none",
       ![r].futures[j].result = ApplyRest(pt.transformer, F.res),
       ![r].futures[j].doneAt =
          1 + Cardinality({k \in 1..Len(runs[r].futures) :
                             runs[r].futures[k].state = "done"})]
  /\ UNCHANGED <<pt, contexts, locks>>
  /\ ParOther

\* The tasks of call r.
Tasks(r) == 1..Len(runs[r].futures)

\* A generator that yields whichever submitted future is done.
NextResultAny(R) ==
  {j \in 1..Len(R.futures) :
     R.futures[j].state = "done" /\ \E q \in 1..Len(R.queue) : R.queue[q] = j}

\* _ordered_generator: futures.popleft().result() returns when the oldest
\* future is done.
NextResult(R) ==
  IF R.queue # <<>> /\ R.futures[Head(R.queue)].state = "done"
  THEN {Head(R.queue)} ELSE {}

\* _ordered_generator: yield futures.popleft().result(), then submit the
\* next chunk; result_iterator_manager yields the items of the result.
ParYieldOrdered(r) ==
  /\ runs[r].phase = "running" /\ pt.ordered
  /\ \E j \in NextResult(runs[r]) :
       runs' = [runs EXCEPT ![r] =
         SubmitChunks([@ EXCEPT !.out = @ \o runs[r].futures[j].result,
                                !.queue = SelectSeq(@, LAMBDA q : q # j)], 1)]
  /\ UNCHANGED <<pt, contexts, locks>>
  /\ ParOther

\* _unordered_generator: done, futures = wait(futures, FIRST_COMPLETED)
ParWait(r) ==
  LET R == runs[r]
      done == {j \in R.waitset : R.futures[j].state = "done"}
  IN /\ R.phase = "running" /\ ~pt.ordered
     /\ R.batch = {} /\ done # {}
     /\ runs' = [runs EXCEPT ![r].batch = done, ![r].waitset = @ \ done]
     /\ UNCHANGED <<pt, contexts, locks>>
     /\ ParOther

\* _unordered_generator: for future in done: yield future.result(), then
\* submit the next chunk.
ParYieldUnordered(r) ==
  /\ runs[r].phase = "running" /\ ~pt.ordered
  /\ \E j \in runs[r].batch :
       runs' = [runs EXCEPT ![r] =
         SubmitChunks([@ EXCEPT !.out = @ \o runs[r].futures[j].result,
                                !.batch = @ \ {j}], 1)]
  /\ UNCHANGED <<pt, contexts, locks>>
  /\ ParOther

\* No future is left: the generator ends and the executor is shut down.
ParClose(r) ==
  /\ runs[r].phase = "running"
  /\ runs[r].queue = <<>> /\ runs[r].waitset = {} /\ runs[r].batch = {}
  /\ runs' = [runs EXCEPT ![r].phase = "closed"]
  /\ UNCHANGED <<pt, contexts, locks>>
  /\ ParOther

ParNext ==
  \/ Call
  \* the workers
  \/ \E r \in 1..Len(runs) : \E j \in Tasks(r) : ParTaskStart(r, j)
  \/ \E r \in 1..Len(runs) : \E j \in Tasks(r) : ParTaskCall(r, j)
  \/ \E r \in 1..Len(runs) : \E j \in Tasks(r) : ParTaskLock(r, j)
  \/ \E r \in 1..Len(runs) : \E j \in Tasks(r) : ParTaskIncr(r, j)
  \/ \E r \in 1..Len(runs) : \E j \in Tasks(r) : ParTaskDone(r, j)
  \* the consumer of the iterator
  \/ \E r \in 1..Len(runs) : ParStart(r)
  \/ \E r \in 1..Len(runs) : ParYieldOrdered(r)
  \/ \E r \in 1..Len(runs) : ParWait(r)
  \/ \E r \in 1..Len(runs) : ParYieldUnordered(r)
  \/ \E r \in 1..Len(runs) : ParClose(r)

\* One call of a ParallelTransformer.
SpecPar == ParInit /\ [][ParNext]_vars

\* Two calls of the same ParallelTransformer, consumed in any interleaving.
SpecPar2 == ParInit /\ [][ParNext \/ CallAgain]_vars

\* C24: with the read-modify-write of the context key done while holding
\* the lock kept in the shared context, the key counts the processed items
\* at every moment, and equals the number of items of the data when the run
\* is over, for every interleaving of the workers.
C24_LockedCounterExact ==
  \A r \in 1..Len(runs) :
    /\ contexts[runs[r].ctx].count = Len(Flat([j \in Tasks(r) |-> runs[r].futures[j].res]))
    /\ runs[r].phase = "closed" => contexts[runs[r].ctx].count = Len(runs[r].data)

\* Three chunks of one item on two workers: the second task was done before
\* the first, so the two ran at the same time, and the count is 3.
C24_Witness ==
  /\ Len(runs) = 1 /\ runs[1].phase = "closed"
  /\ pt.chunk_size = 1 /\ pt.max_workers = 2 /\ Len(runs[1].data) = 3
  /\ runs[1].futures[2].doneAt < runs[1].futures[1].doneAt
  /\ contexts[runs[1].ctx].count = 3

\* C25: with ordered=True the items the iterator has yielded are at every
\* moment a prefix of what the sequential Transformer yields for the same
\* composed function, chunk size and data, and all of it when the iterator
\* ends, in whatever order the tasks complete.
C25_OrderedAsSequential ==
  \A r \in 1..Len(runs) :
    pt.ordered =>
      LET \* for chunk in self._chunk_generator(data):
          \*   yield from self.transformer(chunk)
          chunks == ChunkGenerator(runs[r].data, pt.chunk_size)
          want == Flat([k \in 1..Len(chunks) |->
                          ApplyRest(pt.transformer,
                                    [i \in 1..Len(chunks[k]) |-> 2 * chunks[k][i]])])
      IN
      /\ Len(runs[r].out) <= Len(want)
      /\ runs[r].out = SubSeq(want, 1, Len(runs[r].out))
      /\ runs[r].phase = "closed" => runs[r].out = want

\* map.filter over <<1, 2, 3>> in chunks of one: the task of the second
\* chunk completes first, and the iterator yields 2 and then 6.
C25_Witness ==
  /\ Len(runs) = 1 /\ runs[1].phase = "closed" /\ pt.ordered
  /\ pt.chunk_size = 1 /\ Len(pt.transformer) = 2
  /\ runs[1].data = <<1, 2, 3>>
  /\ runs[1].futures[2].doneAt = 1
  /\ runs[1].out = <<2, 6>>

\* C29: with two calls of the same instance with two contexts, every call
\* of the user function made for a call of the instance is given that call's
\* context, in every interleaving.
C29_RunsIsolated ==
  \A r \in 1..Len(runs) : \A j \in Tasks(r) :
    \A i \in 1..Len(runs[r].futures[j].got) :
      runs[r].futures[j].got[i] = runs[r].ctx

\* range(self.max_workers + 1): the chunks a bounded generator submits
\* beyond the size of the pool.
Slack == 1

\* C27: with ordered=True the result generator of concurrent never has more
\* than max_workers + Slack chunks submitted and not yet delivered, however
\* many chunks the upstream has.
C27_BoundedInFlight == ordered => Len(futs) - Len(delivered) <= maxw + Slack

\* C26 as stated: with ordered=False the results are delivered in the order
\* in which their workers completed.
C26_CompletionOrder ==
  ~ordered =>
    \A p, q \in 1..Len(delivered) :
      p < q => futs[delivered[p]].doneAt < futs[delivered[q]].doneAt

\* C26: with ordered=False a result is delivered after its worker completed;
\* each wait returns every result completed and not yet returned; the
\* results one wait returned are delivered before those a later wait
\* returned, and had completed before them; the results one wait returned
\* are delivered in any order.
C26_BatchesInCompletionOrder ==
  ~ordered =>
    /\ \A p \in 1..Len(delivered) :
         futs[delivered[p]].state = "done" /\ futs[delivered[p]].waitNo > 0
    /\ \A p, q \in 1..Len(delivered) :
         p < q => futs[delivered[p]].waitNo <= futs[delivered[q]].waitNo
    /\ \A a, b \in 1..Len(futs) :
         (futs[a].waitNo > 0 /\ futs[b].state = "done"
            /\ (futs[b].waitNo = 0 \/ futs[a].waitNo < futs[b].waitNo))
           => futs[a].doneAt < futs[b].doneAt
    /\ \A b \in batch : futs[b].waitNo = WaitCount

\* Two results one wait returned, delivered against the order of completion.
C26_Witness ==
  /\ ~ordered /\ Len(delivered) = 2
  /\ futs[delivered[1]].waitNo = futs[delivered[2]].waitNo
  /\ futs[delivered[1]].doneAt > futs[delivered[2]].doneAt

\* C28: during a concurrent dispatch the context-aware function run for a
\* chunk is given the isolated context of that chunk, never the parent
\* context, and no two workers are given the same context; a key one worker
\* binds is absent from the parent context while workers run.
C28_WorkersIsolated ==
  LET \* the workers whose map function is being called, and the context it
      \* is given: std_function is built on the item's context
      InUserFunction == {j \in 1..Len(futs) : futs[j].pc \in {"chk", "set", "app"}}
      GivenContext(j) == futs[j].chunk[futs[j].i].context
  IN
  /\ \A j \in InUserFunction :
       GivenContext(j) = Iso(j) /\ GivenContext(j) # Root
  /\ \A j, k \in InUserFunction : j # k => GivenContext(j) # GivenContext(k)
  /\ (\E j \in 1..Len(futs) : futs[j].state # "done") => ctx[Root].pv = 0

\* C30: in the chunk stream of a pipeline built by the constructor and any
\* sequence of operations, every chunk except possibly the last has exactly
\* chunk_size items.
C30_ChunkSizeInvariant ==
  (phase = "done" /\ term \in {"to_list", "noop", "first"}) =>
    \A n \in 1..(Len(consumed) - 1) : Len(consumed[n]) = size

\* C32: in a call of a ParallelTransformer, ordered or not, the chunks taken
\* from the source and submitted whose result was not yet yielded are never
\* more than max_workers + 1, so that a chunk beyond the first
\* max_workers + 1 is taken only after a result was yielded.
C32_ParBoundedInFlight ==
  \A r \in 1..Len(runs) :
    LET R == runs[r]
        inflight == Len(R.queue) + Cardinality(R.waitset \cup R.batch)
    IN /\ inflight <= pt.max_workers + Slack
       /\ Len(R.futures) - inflight >= 0
       /\ (Len(R.futures) > pt.max_workers + Slack) => R.out # <<>> \/ Len(pt.transformer) = 2

\* Three chunks and one worker: the third chunk was submitted after the
\* first result was yielded, and two chunks are in flight again.
C32_Witness ==
  /\ Len(runs) = 1 /\ pt.max_workers = 1
  /\ Len(runs[1].futures) = 3 /\ runs[1].out # <<>>
  /\ Len(runs[1].queue) + Cardinality(runs[1].waitset \cup runs[1].batch) = 2

\* ------------------------------------------ Pipeline.each, Pipeline.__iter__
\* The function handed to each is keep0, which raises on 2 (what it returns
\* is dropped); the terminal operation stands after the last generator of
\* the pipeline.

\* each with a function whose exception is ignored.
EachItemIgnore(it, a, cx) ==
  IF it.error # NoErr
  THEN [a EXCEPT !.errors = Append(@, it.error), !.st = SetHasErrors(@, cx)]
  ELSE [a EXCEPT !.st = LogCall(@, Len(a.st.gens) + 1, it, FilterFn("keep0", it.value))]

\* each, one item of a chunk: an errored item is noted, the function is
\* called on the value of any other, and its exception is noted.
EachItem(it, a, cx) ==
  IF it.error # NoErr
  THEN [a EXCEPT !.errors = Append(@, it.error), !.st = SetHasErrors(@, cx)]
  ELSE LET k == Len(a.st.gens) + 1
           r == FilterFn("keep0", it.value)
           st1 == LogCall(a.st, k, it, r)
       IN IF r.raised
          THEN [a EXCEPT !.errors = Append(@, Err(k, "each", r.arg)),
                         !.st = SetHasErrors(st1, cx)]
          ELSE [a EXCEPT !.st = st1]

RECURSIVE EachLoop(_, _, _, _)
\* each: for chunk in self.generator: for value, error, _ in chunk.
\* rest: the items of the chunk at hand that are still to come.
EachLoop(g, a, rest, cx) ==
  IF rest # <<>> THEN EachLoop(g, EachItem(Head(rest), a, cx), Tail(rest), cx)
  ELSE LET r == Pull(g, a.st)
       IN IF r.end THEN [a EXCEPT !.st = r.st]
          ELSE EachLoop(g, [a EXCEPT !.st = r.st, !.consumed = Append(@, r.chunk)],
                        r.chunk, cx)

\* Pipeline.each(function)
Each ==
  /\ phase = "build" /\ cphase = "off"
  /\ LET a == EachLoop(Top, Acc0, <<>>, gens[Top].cx)
     IN Finish(a, "each", IF a.errors # <<>> THEN "CompoundError" ELSE "returned")

\* __iter__ that hands out the value of an errored item too.
IterItemBoth(it, a, cx) ==
  IF it.error # NoErr
  THEN [a EXCEPT !.errors = Append(@, it.error), !.results = Append(@, it.value),
                 !.st = SetHasErrors(@, cx)]
  ELSE [a EXCEPT !.results = Append(@, it.value)]

\* __iter__, one item of a chunk: the error of an errored item is noted, the
\* value of any other is yielded.
IterItem(it, a, cx) ==
  IF it.error # NoErr
  THEN [a EXCEPT !.errors = Append(@, it.error), !.st = SetHasErrors(@, cx)]
  ELSE [a EXCEPT !.results = Append(@, it.value)]

RECURSIVE IterLoop(_, _, _)
\* __iter__ from where it stands to its next yield or to its end.  The items
\* of the chunks pulled so far that were looked at are those counted in
\* results and errors.
IterLoop(g, a, cx) ==
  LET k == Len(a.results) + Len(a.errors)
      items == Flat(a.consumed)
  IN IF k < Len(items)
     THEN IF items[k + 1].error # NoErr
          THEN IterLoop(g, IterItem(items[k + 1], a, cx), cx)
          ELSE [a |-> IterItem(items[k + 1], a, cx), end |-> FALSE]
     ELSE LET r == Pull(g, a.st)
          IN IF r.end THEN [a |-> [a EXCEPT !.st = r.st], end |-> TRUE]
             ELSE IterLoop(g, [a EXCEPT !.st = r.st, !.consumed = Append(@, r.chunk)],
                           cx)

\* next() on iter(pipeline): the generator runs to its next yield; at the
\* end of the stream it raises CompoundError if it noted an error, and
\* StopIteration otherwise.
IterNext ==
  /\ cphase = "off"
  /\ (phase = "build" /\ gens # <<>>) \/ (phase = "iter" /\ term = "iter")
  /\ LET r == IterLoop(Top, [st |-> St, results |-> results, errors |-> errors,
                              consumed |-> consumed], gens[Top].cx)
     IN /\ gens' = r.a.st.gens
        /\ ctx' = r.a.st.ctx
        /\ heap' = r.a.st.heap
        /\ calls' = r.a.st.calls
        /\ handled' = r.a.st.handled
        /\ nid' = r.a.st.nid
        /\ results' = r.a.results
        /\ errors' = r.a.errors
        /\ consumed' = r.a.consumed
        /\ term' = "iter"
        /\ phase' = IF r.end THEN "done" ELSE "iter"
        /\ outcome' = IF ~r.end THEN "none"
                      ELSE IF r.a.errors # <<>> THEN "CompoundError" ELSE "returned"
  /\ UNCHANGED <<source, size, concVars, parVars, otherVars>>

\* The consumer leaves its loop: the generator is closed where it stands.
IterStop ==
  /\ phase = "iter" /\ term = "iter"
  /\ phase' = "done"
  /\ outcome' = "abandoned"
  /\ UNCHANGED <<source, size, gens, ctx, heap, calls, handled, nid, term, results,
                 errors, consumed, concVars, parVars, otherVars>>

\* Every operation of Pipeline, sequential and concurrent.
SpecAll == ConcInit /\ [][SeqNext \/ ConcNext \/ Each \/ IterNext \/ IterStop]_vars

\* The sequential pipeline over a source of integers, with each and
\* iteration among its terminal operations.
SpecTerm == IntInit /\ [][SeqNext \/ Each \/ IterNext \/ IterStop]_vars

\* C37: each(f) calls f once on every item without an error, in the order of
\* the stream, and on no errored item; an exception of f does not keep f from
\* the later items; CompoundError, raised after the whole stream was
\* consumed, holds the errors of the errored items and the exceptions of f in
\* the order of the stream.
C37_EachAppliesOnce ==
  (phase = "done" /\ term = "each") =>
    LET up == RunOf(Top)
        in == Flat(up.consumed)
        k == Top + 1
        good == SelectSeq(in, LAMBDA it : it.error = NoErr)
        bad == SelectSeq(in, LAMBDA it : IsErrored(it) \/ FilterFn("keep0", it.value).raised)
    IN /\ consumed = up.consumed
       /\ CallsOf(k, calls) =
            [i \in 1..Len(good) |->
               [g |-> k, id |-> good[i].id, arg |-> good[i].value,
                raised |-> FilterFn("keep0", good[i].value).raised]]
       /\ errors = [i \in 1..Len(bad) |->
                      IF IsErrored(bad[i]) THEN bad[i].error
                      ELSE Err(k, "each", bad[i].value)]
       /\ outcome = IF errors # <<>> THEN "CompoundError" ELSE "returned"
       /\ results = <<>>

\* f raised on an item, was called on a later item, and its exception is
\* reported after the error of an errored item.
C37_Witness ==
  /\ phase = "done" /\ term = "each" /\ outcome = "CompoundError"
  /\ Len(errors) = 2 /\ errors[1].by # "each" /\ errors[2].by = "each"
  /\ LET cs == CallsOf(Top + 1, calls)
     IN Len(cs) = 2 /\ cs[1].raised /\ ~cs[2].raised

\* C34: iteration yields the values of the items without an error in the
\* order of the stream, each when its chunk has been pulled and no later
\* chunk has; CompoundError is raised only after the last chunk was consumed,
\* with the errors of all the errored items, the values that follow an
\* errored item having been yielded before; a consumer that stops early gets
\* no CompoundError.
C34_IterationYieldsThenRaises ==
  term = "iter" =>
    LET up == RunOf(Top)
        in == Flat(up.consumed)
        k == Len(results) + Len(errors)
    IN /\ Len(consumed) <= Len(up.consumed)
       /\ consumed = SubSeq(up.consumed, 1, Len(consumed))
       /\ k <= Len(Flat(consumed))
       /\ results = ValuesIn(SubSeq(in, 1, k))
       /\ errors = ErrorsIn(SubSeq(in, 1, k))
       /\ phase = "iter" =>
            /\ outcome = "none" /\ k >= 1
            /\ in[k].error = NoErr /\ results[Len(results)] = in[k].value
            /\ k > Len(Flat(SubSeq(consumed, 1, Len(consumed) - 1)))
       /\ phase = "done" =>
            /\ outcome \in {"CompoundError", "returned", "abandoned"}
            /\ outcome # "abandoned" =>
                 /\ consumed = up.consumed /\ k = Len(in)
                 /\ outcome = "CompoundError" <=> errors # <<>>
            /\ outcome = "abandoned" => results # <<>>

\* The first item is errored, a value of a later chunk was yielded after it,
\* and CompoundError was raised at the end of the stream.
C34_Witness ==
  /\ term = "iter" /\ outcome = "CompoundError"
  /\ Len(consumed) >= 2 /\ consumed[1] # <<>> /\ IsErrored(consumed[1][1])
  /\ results # <<>> /\ Len(errors) = 1

C36_ReduceFunctionFailure ==
  ToListOver("reduce") =>
    LET in == StreamOf(Top - 1)
        good == SelectSeq(in, LAMBDA it : it.error = NoErr)
        Fails(it) == it.error = NoErr /\ ReduceFn(gens[Top].fn, IntV(0), it.value).raised
        failed == SelectSeq(in, Fails)
        kept == SelectSeq(in, LAMBDA it : it.error = NoErr /\ ~Fails(it))
    IN /\ results = <<FoldOf(Top, kept, IntV(0))>>
       /\ \A i \in 1..Len(failed) :
            \E n \in 1..Len(consumed[1]) :
              consumed[1][n] = Item(failed[i].id, failed[i].value,
                                    Err(Top, "reduce", failed[i].value),
                                    failed[i].context)
       /\ CallsOf(Top, calls) =
            [i \in 1..Len(good) |->
               [g |-> Top, id |-> good[i].id, arg |-> good[i].value,
                raised |-> Fails(good[i])]]

\* reduce(f, 0) over <<1, 2, 0>>: f raises on 2 with the accumulator at 1 and
\* folds 0 into it afterwards.
C36_Witness ==
  /\ ToListOver("reduce") /\ Len(gens) = 2
  /\ source = <<IntV(1), IntV(2), IntV(0)>>
  /\ results = <<IntV(2)>> /\ Len(errors) = 1

\* ------------------------------------------------------------ Transformer
\* The longest data given to a Transformer, and the longest chain built.
TrLen == 3
MaxOps == 3

\* The chunk-wise operation that map, filter, flatten and tap hand to _pipe,
\* as stage i of the chain, on the chunk c.chunk of chunk number j:
\*   map      [f(x) for x in chunk], f = lambda x: (x + 1) % 3 (TypeError on a list)
\*   filter   [x for x in chunk if p(x)], p = lambda x: x != 0
\*   flatten  [item for sublist in chunk for item in sublist] (TypeError on an int)
\*   tap      for item in chunk: g(item); return chunk
\* c.log is the list of the items each stage has read; an exception leaves
\* the chunk function (c.raised) after the item it was raised on.
Operation(op, j, i, c) ==
  IF c.raised THEN c
  ELSE
    LET n == Len(c.chunk)
        bad == {m \in 1..n : \/ (op = "map" /\ c.chunk[m].isList)
                              \/ (op = "flatten" /\ ~c.chunk[m].isList)}
        last == IF bad = {} THEN n ELSE CHOOSE m \in bad : \A b \in bad : m <= b
        out == CASE op = "map" -> [m \in 1..n |-> IntV((c.chunk[m].n + 1) % 3)]
                 [] op = "filter" -> SelectSeq(c.chunk, LAMBDA v : v.isList \/ v.n # 0)
                 [] op = "flatten" ->
                      Flat([m \in 1..n |->
                              [x \in 1..Len(c.chunk[m].xs) |-> IntV(c.chunk[m].xs[x])]])
                 [] OTHER -> c.chunk
    IN [chunk |-> IF bad = {} THEN out ELSE <<>>,
        log |-> c.log \o [m \in 1..last |->
                            [chunk |-> j, stage |-> i, arg |-> c.chunk[m]]],
        raised |-> bad # {}]

RECURSIVE ComposeOuter(_, _, _, _)
\* A composition that hands the chunk to the newest operation first.
ComposeOuter(ops, k, j, c) ==
  IF k = 0 THEN c ELSE ComposeOuter(ops, k - 1, j, Operation(ops[k], j, k, c))

RECURSIVE Compose(_, _, _, _)
\* self.transformer after k calls of _pipe, applied to a chunk: the identity
\* of __init__, or lambda chunk: operation(prev_transformer(chunk)).
Compose(ops, k, j, c) ==
  IF k = 0 THEN c ELSE Operation(ops[k], j, k, Compose(ops, k - 1, j, c))

\* map / filter / flatten / tap on the Transformer that reference h names
\* (apply(t) with t = lambda t: t.<op>(...) is the same call): _pipe binds
\* the composed function to self.transformer and returns self.  made is the
\* chain the returned reference stands for.  The iterator of an earlier call
\* is dropped.
Pipe(h, op) ==
  LET o == tr.refs[h] IN
  /\ tr.call.state # "running"
  /\ Len(tr.refs) <= MaxOps
  /\ tr' = [tr EXCEPT !.objs[o].transformer = Append(@, op),
                      !.refs = Append(@, o),
                      !.made = Append(@, Append(tr.objs[o].transformer, op)),
                      !.call = NoCall]
  /\ UNCHANGED <<seqVars, concVars, parVars, hm, imp>>

\* Transformer.__call__(data) through reference h: a generator, nothing
\* runs before it is advanced.  One call is followed per chain built.
TrCall(h, data) ==
  /\ tr.call.state = "none"
  /\ tr' = [tr EXCEPT !.call =
              [NoCall EXCEPT !.h = h, !.data = data, !.state = "running",
                 !.chunks = ChunkGenerator(data, tr.objs[tr.refs[h]].chunk_size)]]
  /\ UNCHANGED <<seqVars, concVars, parVars, hm, imp>>

\* The iterator is advanced past one chunk: yield from self.transformer(chunk),
\* with the function self.transformer is bound to at that time.
TrNext ==
  LET c == tr.call
      ops == tr.objs[tr.refs[c.h]].transformer
      r == Compose(ops, Len(ops), c.j + 1,
                   [chunk |-> Head(c.chunks), log |-> c.log, raised |-> FALSE])
  IN /\ c.state = "running"
     /\ tr' = IF c.chunks = <<>>
              THEN [tr EXCEPT !.call.state = "done"]
              ELSE [tr EXCEPT !.call.chunks = Tail(@),
                              !.call.j = @ + 1,
                              !.call.out = @ \o r.chunk,
                              !.call.log = r.log,
                              !.call.state = IF r.raised THEN "raised" ELSE "running"]
     /\ UNCHANGED <<seqVars, concVars, parVars, hm, imp>>

TrSteps ==
  \/ \E h \in 1..Len(tr.refs), op \in {"map", "filter", "flatten", "tap"} : Pipe(h, op)
  \/ \E h \in {g \in 1..Len(tr.refs) : tr.call.state = "none"} :
       \E data \in SeqsUpTo({IntV(1), IntV(2), ListV(<<1, 0>>)}, TrLen) : TrCall(h, data)
  \/ TrNext

\* A Transformer, the operations chained on it, and the calls on data.
SpecTr == Others("tr") /\ [][TrSteps]_vars

\* C38: an intermediate operation leaves its receiver as it was: a call made
\* through a reference yields what the chain that reference stood for when
\* it was returned yields, whatever was chained on the result afterwards.
C38_ReceiverUnchanged ==
  tr.call.state = "done" =>
    LET c == tr.call
        was == tr.made[c.h]
        chunks == ChunkGenerator(c.data, tr.objs[tr.refs[c.h]].chunk_size)
        Was(j) == Compose(was, Len(was), j,
                          [chunk |-> chunks[j], log |-> <<>>, raised |-> FALSE])
    IN (\A j \in 1..Len(chunks) : ~Was(j).raised) =>
         c.out = Flat([j \in 1..Len(chunks) |-> Was(j).chunk])

\* C31: the operations are applied in the order they were chained.  In the
\* log of the items the stages read, the entries of a chunk precede those of
\* the next chunk, and within a chunk the entries of a stage precede those of
\* the next stage; the first stage reads the chunk, every other stage reads
\* what the stage before it returned for that chunk, and the output is what
\* the last stage returned, chunk after chunk.
C31_LeftToRight ==
  tr.call.state \in {"running", "done", "raised"} =>
    LET c == tr.call
        ops == tr.objs[tr.refs[c.h]].transformer
        k == Len(ops)
        chunks == ChunkGenerator(c.data, tr.objs[tr.refs[c.h]].chunk_size)
        Read(j, i) ==
          LET es == SelectSeq(c.log, LAMBDA e : e.chunk = j /\ e.stage = i)
          IN [m \in 1..Len(es) |-> es[m].arg]
        Ret(j, i) == Operation(ops[i], j, i,
                               [chunk |-> Read(j, i), log |-> <<>>, raised |-> FALSE]).chunk
    IN /\ \A a \in 1..Len(c.log) - 1 :
            \/ c.log[a].chunk < c.log[a + 1].chunk
            \/ /\ c.log[a].chunk = c.log[a + 1].chunk
               /\ c.log[a].stage <= c.log[a + 1].stage
       /\ c.state # "raised" =>
            /\ \A j \in 1..c.j :
                 /\ k > 0 => Read(j, 1) = chunks[j]
                 /\ \A i \in 2..k : Read(j, i) = Ret(j, i - 1)
            /\ c.out = Flat([j \in 1..c.j |-> IF k = 0 THEN chunks[j] ELSE Ret(j, k)])

\* map, filter and tap on <<2, 1, 2>> in chunks of two: both items of the
\* first chunk pass the map before the filter reads either, the filter drops
\* the 0 the map made of 2 before the tap, and the second chunk follows.
C31_Witness ==
  /\ tr.call.state = "done"
  /\ tr.objs[1].transformer = <<"map", "filter", "tap">>
  /\ tr.objs[1].chunk_size = 2
  /\ tr.call.data = <<IntV(2), IntV(1), IntV(2)>>
  /\ tr.call.out = <<IntV(2)>>
  /\ Len(tr.call.log) = 7

\* ----------------------------------------------------------- HooksManager
\* The number of add, add_before and remove calls followed.
MaxHooks == 4

\* The hook functions are 1, 2 and 3; each appends its number to
\* context["ran"], and 3 raises before it does.
RECURSIVE CallHooksStop(_, _, _)
\* A loop that the first exception ends.
CallHooksStop(funcs, i, c) ==
  IF i > Len(funcs) THEN c
  ELSE IF funcs[i].f = 3
       THEN [c EXCEPT !.log = Append(@, funcs[i])]
       ELSE CallHooksStop(funcs, i + 1, [c EXCEPT !.log = Append(@, funcs[i]),
                                                  !.context = Append(@, funcs[i].f)])

RECURSIVE CallHooks(_, _, _)
\* for hook_func in hook_funcs: try: hook_func(context) except Exception: print(...)
CallHooks(funcs, i, c) ==
  IF i > Len(funcs) THEN c
  ELSE IF funcs[i].f = 3
       THEN CallHooks(funcs, i + 1, [c EXCEPT !.log = Append(@, funcs[i])])
       ELSE CallHooks(funcs, i + 1, [c EXCEPT !.log = Append(@, funcs[i]),
                                              !.context = Append(@, funcs[i].f)])

\* add("test", f): self.hooks[hook_name].append(hook_func)
HmAdd(f) ==
  /\ Len(hm.hist) < MaxHooks
  /\ hm' = [hm EXCEPT !.hooks = Append(@, [f |-> f, how |-> "add", n |-> Len(hm.hist) + 1]),
                      !.hist = Append(@, [op |-> "add", f |-> f]),
                      !.called = FALSE]
  /\ UNCHANGED <<seqVars, concVars, parVars, tr, imp>>

\* add_before("test", f): self.hooks[hook_name].insert(0, hook_func)
HmAddBefore(f) ==
  /\ Len(hm.hist) < MaxHooks
  /\ hm' = [hm EXCEPT !.hooks = <<[f |-> f, how |-> "before", n |-> Len(hm.hist) + 1]>> \o @,
                      !.hist = Append(@, [op |-> "before", f |-> f]),
                      !.called = FALSE]
  /\ UNCHANGED <<seqVars, concVars, parVars, tr, imp>>

\* remove("test", f): list.remove drops the first entry equal to f;
\* remove("test") (f = 0 for None) drops the key.
HmRemove(f) ==
  LET at == {i \in 1..Len(hm.hooks) : hm.hooks[i].f = f}
      first == CHOOSE i \in at : \A k \in at : i <= k
  IN /\ Len(hm.hist) < MaxHooks
     /\ hm' = [hm EXCEPT !.hooks = IF f = 0 THEN <<>>
                                   ELSE IF at = {} THEN @
                                   ELSE SubSeq(@, 1, first - 1) \o SubSeq(@, first + 1, Len(@)),
                         !.hist = Append(@, [op |-> "remove", f |-> f]),
                         !.called = FALSE]
     /\ UNCHANGED <<seqVars, concVars, parVars, tr, imp>>

\* call("test", context, return_params) with context = {"ran": []}
HmCall ==
  LET c == CallHooks(hm.hooks, 1, [log |-> <<>>, context |-> <<>>]) IN
  /\ ~hm.called
  /\ hm' = [hm EXCEPT !.log = c.log, !.context = c.context, !.called = TRUE]
  /\ UNCHANGED <<seqVars, concVars, parVars, tr, imp>>

HmNext ==
  \/ \E f \in 1..3 : HmAdd(f)
  \/ \E f \in 1..3 : HmAddBefore(f)
  \/ \E f \in 0..3 : HmRemove(f)
  \/ HmCall

\* A HooksManager, the registrations made on it and a call of its hooks.
SpecHooks == Others("hm") /\ [][HmNext]_vars

\* C39: call invokes every function that is registered and was not removed,
\* once per registration, in registry order: the functions registered with
\* add_before before those registered with add, the latter in the order they
\* were registered; a hook that raises is followed by the hooks after it,
\* which run on the context the hooks before it wrote.
C39_HookOrder ==
  hm # <<>> /\ hm.called =>
    LET L == hm.log
        Removed(n) == \E m \in n + 1..Len(hm.hist) :
                        /\ hm.hist[m].op = "remove"
                        /\ hm.hist[m].f \in {0, hm.hist[n].f}
    IN /\ \A a, b \in 1..Len(L) :
            a < b => /\ ~(L[a].how = "add" /\ L[b].how = "before")
                     /\ L[a].how = "add" /\ L[b].how = "add" => L[a].n < L[b].n
       /\ \A n \in 1..Len(hm.hist) :
            hm.hist[n].op # "remove" =>
              /\ Cardinality({a \in 1..Len(L) : L[a].n = n}) <= 1
              /\ (\E a \in 1..Len(L) : L[a].n = n) \/ Removed(n)
       /\ \A a \in 1..Len(L) : hm.hist[L[a].n] = [op |-> L[a].how, f |-> L[a].f]
       /\ LET ok == SelectSeq(L, LAMBDA e : e.f # 3)
          IN hm.context = [a \in 1..Len(ok) |-> ok[a].f]

\* add(3), add(1), add_before(2), call: 2 runs first, 3 raises, and 1 still
\* runs on the context 2 wrote.
C39_Witness ==
  /\ hm # <<>> /\ hm.called
  /\ hm.hist = <<[op |-> "add", f |-> 3], [op |-> "add", f |-> 1], [op |-> "before", f |-> 2]>>
  /\ hm.context = <<2, 1>>
  /\ Len(hm.log) = 3

\* -------------------------------------------------------- process_py_file
\* original_sys_path = sys.path[:]
PySave(t) ==
  /\ imp.th[t].pc = "start"
  /\ imp' = [imp EXCEPT !.th[t].original_sys_path = imp.path, !.th[t].pc = "saved"]
  /\ UNCHANGED <<seqVars, concVars, parVars, tr, hm>>

\* if str(module_dir) not in sys.path: sys.path.insert(0, str(module_dir))
PyInsert(t) ==
  LET d == imp.th[t].dir IN
  /\ imp.th[t].pc = "saved"
  /\ imp' = [imp EXCEPT !.path = IF \E i \in 1..Len(@) : @[i] = d THEN @ ELSE <<d>> \o @,
                        !.th[t].pc = "inserted"]
  /\ UNCHANGED <<seqVars, concVars, parVars, tr, hm>>

\* spec_from_file_location: without a spec or a loader sys.path is set back
\* and the call raises; otherwise original_module_in_sys =
\* sys.modules.get(module_name); sys.modules[module_name] = module (the
\* module of thread t is t).
PyModule(t, found) ==
  LET T == imp.th[t] IN
  /\ T.pc = "inserted"
  /\ imp' = IF found
            THEN [imp EXCEPT !.th[t].original_module_in_sys = imp.modules[T.name],
                             !.modules[T.name] = t,
                             !.th[t].pc = "exec"]
            ELSE [imp EXCEPT !.path = T.original_sys_path, !.th[t].pc = "raised"]
  /\ UNCHANGED <<seqVars, concVars, parVars, tr, hm>>

\* spec.loader.exec_module(module) returns, raises NameError, or raises
\* another exception.
PyExec(t, how) ==
  /\ imp.th[t].pc = "exec"
  /\ imp' = [imp EXCEPT !.th[t].pc = IF how = "NameError" THEN "except" ELSE "finally",
                        !.th[t].raising = how # "ok"]
  /\ UNCHANGED <<seqVars, concVars, parVars, tr, hm>>

\* The clean-up of the except NameError block, and that of the finally
\* block: the entry of sys.modules is popped or set back, and sys.path is
\* bound to original_sys_path.
PyCleanup(t) ==
  LET T == imp.th[t] IN
  /\ T.pc \in {"except", "finally"}
  /\ imp' = [imp EXCEPT !.modules[T.name] = T.original_module_in_sys,
                        !.path = T.original_sys_path,
                        !.th[t].pc = IF T.pc = "except" THEN "finally"
                                     ELSE IF T.raising THEN "raised" ELSE "returned"]
  /\ UNCHANGED <<seqVars, concVars, parVars, tr, hm>>

PyNext ==
  \/ \E t \in 1..Len(imp.th) : PySave(t)
  \/ \E t \in 1..Len(imp.th) : PyInsert(t)
  \/ \E t \in 1..Len(imp.th), found \in BOOLEAN : PyModule(t, found)
  \/ \E t \in 1..Len(imp.th), how \in {"ok", "NameError", "other"} : PyExec(t, how)
  \/ \E t \in 1..Len(imp.th) : PyCleanup(t)

\* The worker threads of the CLI, each in process_py_file for its file.
SpecImport == Others("imp") /\ [][PyNext]_vars

\* C40: once every call of process_py_file has returned or raised, sys.path
\* and sys.modules are what they were before the first call: no directory
\* and no module that a call put there is left.
C40_ImportStateRestored ==
  (imp # <<>> /\ \A t \in 1..Len(imp.th) : imp.th[t].pc \in {"returned", "raised"}) =>
    /\ imp.path = imp.path0
    /\ imp.modules = imp.modules0

\* ------------------------------------------- termination of concurrent
\* The concurrent pipeline, over a source of 0 (on which the functions
\* raise) and 1, with threads that run and a consumer that keeps pulling: as long as the consumer, the executor or a worker can take a
\* step other than the consumer's break, one of them does, and a task at
\* its pipeline function gets to run it.  The second condition is
\* WF_vars(\E j : TaskRun(j)), with ENABLED written as the guard of TaskRun.
SpecConcFair ==
  /\ NewPipeline({IntV(0), IntV(1)}, ConcLen) /\ [][ConcNext]_vars
  /\ WF_vars(\/ Concurrent \/ PoolStart \/ SubmitNext \/ UWait \/ Drained \/ PoolJoined
             \/ \E j \in 1..Len(futs) : Deliver(j) \/ DeliverRaise(j)
             \/ \E j \in 1..Len(futs) :
                  \/ TaskStart(j) \/ TaskChk(j) \/ TaskSet(j) \/ TaskApp(j)
                  \/ TaskMerge(j) \/ TaskDone(j))
  /\ \/ []<>(\A j \in 1..Len(futs) : ~(j \in Running /\ futs[j].pc = "run"))
     \/ []<><<\E j \in 1..Len(futs) : TaskRun(j)>>_vars

\* C35: once the consumer can pull from the result of concurrent, the result
\* generator ends and the pool is shut down with every task finished and
\* context_lock free; unless a result raised or the consumer stopped, the
\* consumer has then received the result of every chunk.
C35_ConcurrentTerminates ==
  (cphase = "lazy") ~>
    /\ cphase = "closed" /\ pool = "closed"
    /\ lock = 0
    /\ \A j \in 1..Len(futs) : futs[j].state = "done"
    /\ outcome \notin {"raised", "abandoned"} =>
         /\ AllDelivered
         /\ Len(futs) = Len(ChunkedAndWrap(source, size, Root))

\* Two chunks on two workers, unordered: every worker has held the lock,
\* every result was received and the pool is closed.
C35_Witness ==
  /\ cphase = "closed" /\ pool = "closed" /\ outcome = "returned"
  /\ ~ordered /\ maxw = 2 /\ Len(futs) = 2
  /\ Len(isolated_contexts) = 2 /\ lock = 0
  /\ AllDelivered /\ Len(results) = 2

====
